---- MODULE Spec2Model ----
(***************************************************************************)
(* A model of the CDCL SAT solver of this repository: the indexed max      *)
(* priority queue (PriorityQueue.py), the Luby generator                   *)
(* (LubyGenerator.py) and the solver class SAT with its top-level loop     *)
(* solve() (SAT.py).                                                       *)
(*                                                                         *)
(* Conventions.  Python lists are sequences; a 0-based Python index i is   *)
(* the TLA+ index i+1.  None is modelled by NoClause (antecedent) and by   *)
(* var = 0 (the variable of a CONFLICT node).  A Python dict over the      *)
(* variables is a function over 1..num_vars whose absent keys map to       *)
(* NoNode.                                                                 *)
(***************************************************************************)
EXTENDS Integers, Sequences, FiniteSets, TLC

VARIABLES
    pc,        \* position of the program: constructor, reader, solve() loop
    args,      \* the constructor arguments [decider, restarter] as given
    input,     \* the input file: [n |-> variables, cls |-> clause lines]
    line,      \* number of clause lines read_dimacs_cnf_file has consumed
    sat,       \* the SAT object (all its fields, stats included)
    luby,      \* the module globals of LubyGenerator.py: [l, mult, minu]
    frame,     \* the locals of solve(): first_time, result, backtrack_level, node_to_add
    calls,     \* how often solve() has called BCP, analyze, backtrack, decide
    queue,     \* a stand-alone PriorityQueue object (the queue specifications)
    op,        \* the last operation applied on its own (queue or Luby generator)
    top        \* the value that operation returned (get_top, get_next_luby_number)

vars == <<pc, args, input, line, sat, luby, frame, calls, queue, op, top>>

(***************************************************************************)
(* Small helpers on sequences.                                             *)
(***************************************************************************)
Range(s) == {s[i] : i \in 1..Len(s)}

\* sequencing: F applied to the value of x, so that a value computed in one
\* statement is computed once however often the later statements read it
Then(x, F(_)) == CHOOSE out \in {F(v) : v \in {x}} : TRUE

Reverse(s) == [i \in 1..Len(s) |-> s[Len(s) + 1 - i]]

Contains(s, x) == \E i \in 1..Len(s) : s[i] = x

\* list(OrderedDict.fromkeys(s)): duplicates dropped, first occurrence kept;
\* the positions kept are those of the first occurrences, in their order
Dedup(s) ==
    LET keep == {i \in 1..Len(s) : \A j \in 1..(i - 1) : s[j] # s[i]}
    IN  [k \in 1..Cardinality(keep) |->
            s[CHOOSE i \in keep : Cardinality({j \in keep : j <= i}) = k]]

\* list.remove(x): the first occurrence of x is removed (x is present)
RemoveFirst(s, x) ==
    LET i == CHOOSE j \in 1..Len(s) : s[j] = x /\ \A k \in 1..(j - 1) : s[k] # x
    IN  SubSeq(s, 1, i - 1) \o SubSeq(s, i + 1, Len(s))

(***************************************************************************)
(* PriorityQueue.py.  A queue is [size, heap, indices]; a heap node is     *)
(* <<priority, key>>; indices[key] is the 0-based heap position of key,    *)
(* or -1 when the key is not in the queue.                                 *)
(***************************************************************************)
Prio(node) == node[1]
Key(node) == node[2]

\* a faulty swap: the positions in indices are not exchanged
PQSwapHeapOnly(q, ind1, ind2) ==
    [q EXCEPT !.heap = [q.heap EXCEPT ![ind1 + 1] = q.heap[ind2 + 1],
                                      ![ind2 + 1] = q.heap[ind1 + 1]]]

PQSwap(q, ind1, ind2) ==
    LET h  == [q.heap EXCEPT ![ind1 + 1] = q.heap[ind2 + 1],
                             ![ind2 + 1] = q.heap[ind1 + 1]]
        p1 == Key(h[ind1 + 1])
        p2 == Key(h[ind2 + 1])
    IN  [q EXCEPT !.heap = h,
                  !.indices = [q.indices EXCEPT ![p1] = q.indices[p2],
                                                ![p2] = q.indices[p1]]]

RECURSIVE PQHeapify(_, _)
PQHeapify(q, node_index) ==
    LET left  == 2 * node_index + 1
        right == 2 * node_index + 2
        own   == Prio(q.heap[node_index + 1])
        m1    == IF left < q.size /\ Prio(q.heap[left + 1]) > own
                 THEN Prio(q.heap[left + 1]) ELSE own
        maxp  == IF right < q.size /\ Prio(q.heap[right + 1]) > m1
                 THEN Prio(q.heap[right + 1]) ELSE m1
    IN  IF maxp = own THEN q
        ELSE IF left < q.size /\ maxp = Prio(q.heap[left + 1])
             THEN Then(PQSwap(q, left, node_index), LAMBDA q1 : PQHeapify(q1, left))
             ELSE Then(PQSwap(q, right, node_index), LAMBDA q1 : PQHeapify(q1, right))

RECURSIVE PQBuild(_, _)
PQBuild(q, i) ==
    IF i < 0 THEN q ELSE Then(PQHeapify(q, i), LAMBDA q1 : PQBuild(q1, i - 1))

\* PriorityQueue(start_list); scores is start_list[1:], the scores of keys 1..n
PQInit(scores) ==
    Then([size    |-> Len(scores),
          heap    |-> [k \in 1..Len(scores) |-> <<scores[k], k>>],
          indices |-> [k \in 1..Len(scores) |-> k - 1]],
         LAMBDA q : PQBuild(q, (Len(scores) \div 2) - 1))

\* get_top(): [q |-> the queue afterwards, top |-> the returned key or -1]
PQGetTop(q) ==
    IF q.size = 0 THEN [q |-> q, top |-> -1]
    ELSE Then(PQSwap(q, 0, q.size - 1), LAMBDA q1 :
         Then([q1 EXCEPT !.indices[Key(q1.heap[q.size])] = -1,
                         !.size = q.size - 1], LAMBDA q2 :
         [q |-> PQHeapify(q2, 0), top |-> Key(q.heap[1])]))

\* a faulty loop: the node stays where it is, whatever its parent holds
PQSiftUpStays(q, par) == q

\* the loop shared by increase_update and remove: the node at par moves up
\* while it is greater than its parent
RECURSIVE PQSiftUp(_, _)
PQSiftUp(q, par) ==
    IF par = 0 THEN q
    ELSE LET parent == (par - 1) \div 2
         IN  IF Prio(q.heap[par + 1]) > Prio(q.heap[parent + 1])
             THEN Then(PQSwap(q, par, parent), LAMBDA q1 : PQSiftUp(q1, parent))
             ELSE q

PQIncreaseUpdate(q, key, value) ==
    IF q.indices[key] = -1 THEN q
    ELSE LET pos == q.indices[key]
         IN  Then([q EXCEPT !.heap[pos + 1] = <<Prio(q.heap[pos + 1]) + value, key>>],
                  LAMBDA q1 : PQSiftUp(q1, pos))

\* a faulty remove: for a key that is absent the last live slot is dropped
PQRemoveDropsLast(q, key) ==
    IF q.indices[key] = -1
    THEN IF q.size = 0 THEN q
         ELSE [q EXCEPT !.size = q.size - 1, !.indices[Key(q.heap[q.size])] = -1]
    ELSE LET pos           == q.indices[key]
             this_node_pr  == Prio(q.heap[pos + 1])
             final_node_pr == Prio(q.heap[q.size])
         IN  Then(PQSwap(q, pos, q.size - 1), LAMBDA q1 :
             Then([q1 EXCEPT !.size = q.size - 1, !.indices[key] = -1], LAMBDA q2 :
             IF final_node_pr > this_node_pr THEN PQSiftUp(q2, pos)
             ELSE IF this_node_pr > final_node_pr THEN PQHeapify(q2, pos)
             ELSE q2))

PQRemove(q, key) ==
    IF q.indices[key] = -1 THEN q
    ELSE LET pos           == q.indices[key]
             this_node_pr  == Prio(q.heap[pos + 1])
             final_node_pr == Prio(q.heap[q.size])
         IN  Then(PQSwap(q, pos, q.size - 1), LAMBDA q1 :
             Then([q1 EXCEPT !.size = q.size - 1, !.indices[key] = -1], LAMBDA q2 :
             IF final_node_pr > this_node_pr THEN PQSiftUp(q2, pos)
             ELSE IF this_node_pr > final_node_pr THEN PQHeapify(q2, pos)
             ELSE q2))

PQAdd(q, key, value) ==
    Then([q EXCEPT !.heap[q.size + 1] = <<0, key>>,
                   !.indices[key] = q.size,
                   !.size = q.size + 1],
         LAMBDA q1 : PQIncreaseUpdate(q1, key, value))

\* the keys in the queue and the priority the heap holds for a key
LiveKeys(q) == {Key(q.heap[i]) : i \in 1..q.size}
PrioOf(q, key) == Prio(q.heap[q.indices[key] + 1])

(***************************************************************************)
(* LubyGenerator.py: the module globals l, mult, minu.                     *)
(*                                                                         *)
(* The list l is held as [base, l]: its first base entries are not written *)
(* out, they hold the Luby sequence (LubyValue); the entries after them    *)
(* are the sequence l.  A generator that starts from reset_luby() has      *)
(* base = 0, and l is then the whole Python list.                          *)
(***************************************************************************)
\* the exponents k <= 30 for which the float math.log(2 ** k, 2) is not k
\* but the next float above it (CPython computes log(x) / log(2))
InexactLogExponents == {29}

\* math.log(x, 2).is_integer(), for 1 <= x <= 2 ^ 30
LogTwoIsInteger(x) == \E k \in (0..30) \ InexactLogExponents : 2 ^ k = x

\* the k-th Luby number (1-based): 2^(m-1) when k = 2^m - 1, and otherwise the
\* number at k - (2^(m-1) - 1), for the m with 2^(m-1) <= k < 2^m
RECURSIVE LubyValue(_)
LubyValue(k) ==
    LET m == CHOOSE j \in 1..31 : 2 ^ (j - 1) <= k /\ (j = 31 \/ k < 2 ^ j)
    IN  IF m <= 30 /\ k = 2 ^ m - 1 THEN 2 ^ (m - 1)
        ELSE LubyValue(k - (2 ^ (m - 1) - 1))

LubyInitial == [l |-> <<>>, mult |-> 1, minu |-> 0, base |-> 0]

\* reset_luby()
ResetLuby(lb) == LubyInitial

\* len(l) and l[i] (0-based)
LubyLen(lb) == lb.base + Len(lb.l)
LubyAt(lb, i) == IF i < lb.base THEN LubyValue(i + 1) ELSE lb.l[i - lb.base + 1]

\* get_next_luby_number(): [luby |-> the globals afterwards, value |-> the number]
GetNextLubyNumber(lb) ==
    LET size    == LubyLen(lb)
        to_fill == size + 1
        lb1     == IF LogTwoIsInteger(to_fill + 1)
                   THEN [lb EXCEPT !.l = Append(@, lb.mult), !.mult = @ * 2,
                                   !.minu = size + 1]
                   ELSE [lb EXCEPT !.l = Append(@, LubyAt(lb, to_fill - lb.minu - 1))]
    IN  [luby |-> lb1, value |-> LubyAt(lb1, size)]

(***************************************************************************)
(* SAT.py: constants and the representation of the scores.                 *)
(*                                                                         *)
(* The scores and incr are Python floats.  VSIDS adds 0.75 to incr, so its *)
(* scores are held as multiples of 1/4.  MINISAT divides incr by 0.85 =    *)
(* 17/20, so after k learned clauses incr = (20/17)^k; its scores are held *)
(* as multiples of 1/17^MaxBumps, exact for the bumps of the first         *)
(* MaxBumps + 1 learned clauses.                                           *)
(***************************************************************************)
Deciders == {"ORDERED", "VSIDS", "MINISAT"}
Restarters == {"GEOMETRIC", "LUBY"}
NoRestarter == "None"            \* Python None as the restarter argument

InitialConflictLimit == 512
LimitMult == 2
LubyBase == 512

\* _conflict_limit and _conflicts_before_restart are Python integers without
\* a greatest value, and a limit of the LUBY restarter goes beyond the
\* 32-bit integers of TLC.  The two fields hold the number
\* units * LimitUnit + rest, with rest in 0..LimitUnit - 1.
LimitUnit == 512
Count(units, rest) == [units |-> units, rest |-> rest]
CountOf(n) == Count(n \div LimitUnit, n % LimitUnit)
CountSucc(c) ==
    IF c.rest + 1 = LimitUnit THEN Count(c.units + 1, 0) ELSE Count(c.units, c.rest + 1)
CountGeq(a, b) == a.units > b.units \/ (a.units = b.units /\ a.rest >= b.rest)
\* c * m
CountTimes(c, m) == Count(c.units * m + (c.rest * m) \div LimitUnit, (c.rest * m) % LimitUnit)

MaxBumps == 5                    \* learned clauses MINISAT may bump exactly

VsidsUnit == 4
DecayNum == 17                   \* _decay = 0.85 = DecayNum / DecayDen
DecayDen == 20
MinisatUnit == DecayNum ^ MaxBumps

ScoreUnit(decider) == IF decider = "MINISAT" THEN MinisatUnit ELSE VsidsUnit

NoClause == -1                   \* clause = None
NoNode == [var |-> 0, value |-> FALSE, level |-> -1, clause |-> NoClause, index |-> -1]

AssignedNode(var, value, level, clause, index) ==
    [var |-> var, value |-> value, level |-> level, clause |-> clause, index |-> index]

NoQueue == [size |-> 0, heap |-> <<>>, indices |-> <<>>]

InitialStats == [result |-> "", num_vars |-> 0, num_clauses |-> 0,
                 num_learned_clauses |-> 0, num_decisions |-> 0,
                 num_implications |-> 0, restarts |-> 0]

\* the fields of a SAT object before __init__ has set any
BlankSat ==
    [num_clauses |-> 0, num_vars |-> 0, level |-> 0, clauses |-> <<>>,
     clauses_watched_by_l |-> <<>>, literals_watching_c |-> <<>>,
     variable_to_assignment_nodes |-> <<>>, assignment_stack |-> <<>>,
     decider |-> "", restarter |-> NoRestarter,
     conflict_limit |-> CountOf(0), limit_mult |-> 0,
     conflicts_before_restart |-> CountOf(0),
     luby_base |-> 0, lit_scores |-> <<>>, var_scores |-> <<>>, phase |-> <<>>,
     priority_queue |-> NoQueue, incr |-> 0, stats |-> InitialStats]

\* a faulty constructor: the restarter name is not checked, and a name it
\* does not know leaves the solver without a restarter
SatInitAnyRestarter(decider, restarter, lb) ==
    IF decider \notin Deciders
    THEN [ok |-> FALSE, sat |-> BlankSat, luby |-> lb]
    ELSE [ok |-> TRUE, sat |-> [BlankSat EXCEPT !.decider = decider], luby |-> lb]

\* SAT.__init__(to_log, decider, restarter): [ok, sat, luby]; ok = FALSE is the
\* ValueError, which leaves no solver
SatInit(decider, restarter, lb) ==
    IF decider \notin Deciders
    THEN [ok |-> FALSE, sat |-> BlankSat, luby |-> lb]
    ELSE IF restarter = NoRestarter
    THEN [ok |-> TRUE, sat |-> [BlankSat EXCEPT !.decider = decider], luby |-> lb]
    ELSE IF restarter \notin Restarters
    THEN [ok |-> FALSE, sat |-> BlankSat, luby |-> lb]
    ELSE IF restarter = "GEOMETRIC"
    THEN [ok |-> TRUE,
          sat |-> [BlankSat EXCEPT !.decider = decider, !.restarter = restarter,
                                   !.conflict_limit = CountOf(InitialConflictLimit),
                                   !.limit_mult = LimitMult,
                                   !.conflicts_before_restart = CountOf(0)],
          luby |-> lb]
    ELSE LET nxt == GetNextLubyNumber(ResetLuby(lb))
         IN  [ok |-> TRUE,
              sat |-> [BlankSat EXCEPT !.decider = decider, !.restarter = restarter,
                                       !.luby_base = LubyBase,
                                       !.conflict_limit =
                                           CountTimes(CountOf(LubyBase), nxt.value),
                                       !.conflicts_before_restart = CountOf(0)],
              luby |-> nxt.luby]

\* _is_negative_literal, _get_var_from_literal
IsNegativeLiteral(S, literal) == literal > S.num_vars
GetVarFromLiteral(S, literal) ==
    IF IsNegativeLiteral(S, literal) THEN literal - S.num_vars ELSE literal

\* "var in self._variable_to_assignment_nodes"
IsAssigned(S, var) == S.variable_to_assignment_nodes[var].var # 0

\* the literal is true under the current assignment
LiteralTrue(S, literal) ==
    LET node == S.variable_to_assignment_nodes[GetVarFromLiteral(S, literal)]
    IN  node.var # 0 /\ node.value = ~IsNegativeLiteral(S, literal)

\* the literal is false under the current assignment
LiteralFalse(S, literal) ==
    LET node == S.variable_to_assignment_nodes[GetVarFromLiteral(S, literal)]
    IN  node.var # 0 /\ node.value = IsNegativeLiteral(S, literal)

\* a faulty removal: under VSIDS only the positive literal leaves the queue
QueueDropVarPositiveOnly(S, var) ==
    IF S.decider = "ORDERED" THEN S.priority_queue
    ELSE PQRemove(S.priority_queue, var)

\* the assignment of a variable removes it (both its literals under VSIDS)
\* from the priority queue
QueueDropVar(S, var) ==
    IF S.decider = "VSIDS"
    THEN Then(PQRemove(S.priority_queue, var),
              LAMBDA q1 : PQRemove(q1, var + S.num_vars))
    ELSE IF S.decider = "MINISAT" THEN PQRemove(S.priority_queue, var)
    ELSE S.priority_queue

\* MINISAT: the phase array remembers the value just assigned
PhaseSet(S, var, value) ==
    IF S.decider = "MINISAT"
    THEN [S.phase EXCEPT ![var] = IF value THEN 1 ELSE 0]
    ELSE S.phase

\* a faulty push: the index of the node is left at the -1 of its constructor
PushNodeNoIndex(S, var, value, level, clause) ==
    LET node == AssignedNode(var, value, level, clause, -1)
    IN  [S EXCEPT !.variable_to_assignment_nodes[var] = node,
                  !.assignment_stack = Append(S.assignment_stack, node)]

\* a node is appended to the stack with its index and entered in the dict
PushNode(S, var, value, level, clause) ==
    LET node == AssignedNode(var, value, level, clause, Len(S.assignment_stack))
    IN  [S EXCEPT !.variable_to_assignment_nodes[var] = node,
                  !.assignment_stack = Append(S.assignment_stack, node)]

(***************************************************************************)
(* Reading the input.  A clause line is its tokens as integers, the        *)
(* terminating 0 included; every line holds at least one literal.          *)
(***************************************************************************)
\* the "p cnf V C" line
ReadProblem(S, n) ==
    [S EXCEPT !.num_vars = n,
              !.variable_to_assignment_nodes = [v \in 1..n |-> NoNode],
              !.clauses_watched_by_l = [l \in 1..(2 * n) |-> <<>>],
              !.lit_scores = IF S.decider = "VSIDS" THEN [l \in 1..(2 * n) |-> 0] ELSE <<>>,
              !.var_scores = IF S.decider = "MINISAT" THEN [v \in 1..n |-> 0] ELSE <<>>,
              !.phase = IF S.decider = "MINISAT" THEN [v \in 1..n |-> 0] ELSE <<>>]

\* the internal literal of an input token
ToLiteral(S, tok) == IF tok < 0 THEN (-tok) + S.num_vars ELSE tok

RECURSIVE BumpAll(_, _, _, _)
BumpAll(scores, keys, i, by) ==
    IF i > Len(keys) THEN scores
    ELSE Then([scores EXCEPT ![keys[i]] = @ + by],
              LAMBDA scores1 : BumpAll(scores1, keys, i + 1, by))

\* a faulty unary branch: a unit clause on an assigned variable is taken as a
\* repetition whatever its polarity
AddUnitClauseNoClash(S, lit) ==
    LET value_to_set == lit > 0
        var          == IF lit < 0 THEN -lit ELSE lit
    IN  IF ~IsAssigned(S, var)
        THEN Then([S EXCEPT !.stats.num_implications = @ + 1], LAMBDA S1 :
                 [sat |-> PushNode(S1, var, value_to_set, 0, NoClause), ret |-> 1])
        ELSE [sat |-> S, ret |-> 1]

\* the unary branch of _add_clause; lit is the token of the input
AddUnitClause(S, lit) ==
    LET value_to_set == lit > 0
        var          == IF lit < 0 THEN -lit ELSE lit
    IN  IF ~IsAssigned(S, var)
        THEN Then([S EXCEPT !.stats.num_implications = @ + 1], LAMBDA S1 :
                 [sat |-> PushNode(S1, var, value_to_set, 0, NoClause), ret |-> 1])
        ELSE IF S.variable_to_assignment_nodes[var].value # value_to_set
        THEN [sat |-> [S EXCEPT !.stats.result = "UNSAT"], ret |-> 0]
        ELSE [sat |-> S, ret |-> 1]

\* _add_clause(clause): [sat, ret]; ret = 0 signals UNSAT
AddClause(S, tokens) ==
    Then(Dedup(SubSeq(tokens, 1, Len(tokens) - 1)), LAMBDA clause :
        IF Len(clause) = 1
        THEN AddUnitClause(S, clause[1])
        ELSE Then([i \in 1..Len(clause) |-> ToLiteral(S, clause[i])], LAMBDA lits :
             LET varsOf    == [i \in 1..Len(clause) |-> GetVarFromLiteral(S, lits[i])]
                 clause_id == S.num_clauses
             IN  [sat |-> [S EXCEPT
                      !.lit_scores = IF S.decider = "VSIDS"
                                     THEN BumpAll(@, lits, 1, VsidsUnit) ELSE @,
                      !.var_scores = IF S.decider = "MINISAT"
                                     THEN BumpAll(@, varsOf, 1, MinisatUnit) ELSE @,
                      !.clauses = Append(@, lits),
                      !.num_clauses = @ + 1,
                      !.literals_watching_c = Append(@, <<lits[1], lits[2]>>),
                      !.clauses_watched_by_l =
                          [[@ EXCEPT ![lits[1]] = Append(@, clause_id)]
                              EXCEPT ![lits[2]] = Append(@, clause_id)]],
                   ret |-> 1]))

RECURSIVE DropAssigned(_, _, _)
DropAssigned(S, q, i) ==
    IF i > Len(S.assignment_stack) THEN q
    ELSE Then(QueueDropVar([S EXCEPT !.priority_queue = q], S.assignment_stack[i].var),
              LAMBDA q1 : DropAssigned(S, q1, i + 1))

\* the end of _read_dimacs_cnf_file: the queue is built from the scores and
\* the variables the unary clauses assigned are removed from it
FinishReading(S) ==
    IF S.decider = "VSIDS"
    THEN [S EXCEPT !.priority_queue =
                       Then(PQInit(S.lit_scores), LAMBDA q : DropAssigned(S, q, 1)),
                   !.incr = VsidsUnit]
    ELSE IF S.decider = "MINISAT"
    THEN [S EXCEPT !.priority_queue =
                       Then(PQInit(S.var_scores), LAMBDA q : DropAssigned(S, q, 1)),
                   !.incr = MinisatUnit]
    ELSE S

(***************************************************************************)
(* _boolean_constraint_propogation.  The operators thread a record         *)
(* [sat, luby, ret]: ret = "" while BCP runs on, and otherwise the value   *)
(* BCP returns ("CONFLICT", "RESTART", "NO_CONFLICT") or "IndexError".     *)
(***************************************************************************)
\* a faulty scan: a literal that is already true is not taken as a new watch
RECURSIVE FindNewWatchUnassignedOnly(_, _, _, _)
FindNewWatchUnassignedOnly(S, clause, watch_list, i) ==
    IF i > Len(clause) THEN -1
    ELSE LET lit == clause[i]
         IN  IF lit # watch_list[1] /\ lit # watch_list[2]
                /\ ~IsAssigned(S, GetVarFromLiteral(S, lit))
             THEN lit
             ELSE FindNewWatchUnassignedOnly(S, clause, watch_list, i + 1)

\* the scan of the clause for a new literal to watch: the first literal, in
\* stored order, that is no watcher and is unassigned or true; -1 if none
RECURSIVE FindNewWatchFrom(_, _, _, _)
FindNewWatchFrom(S, clause, watch_list, i) ==
    IF i > Len(clause) THEN -1
    ELSE LET lit == clause[i]
         IN  IF lit # watch_list[1] /\ lit # watch_list[2]
                /\ (~IsAssigned(S, GetVarFromLiteral(S, lit)) \/ LiteralTrue(S, lit))
             THEN lit
             ELSE FindNewWatchFrom(S, clause, watch_list, i + 1)

\* a faulty scan: no new literal to watch is ever found
FindNewWatchNone(S, clause_id) == -1

FindNewWatch(S, clause_id) ==
    FindNewWatchFrom(S, S.clauses[clause_id + 1], S.literals_watching_c[clause_id + 1], 1)

\* a faulty restarter: the limit is compared before the conflict is counted
ConsultRestarterLate(S, lb) ==
    IF S.restarter = NoRestarter THEN [sat |-> S, luby |-> lb, fire |-> FALSE]
    ELSE IF CountGeq(S.conflicts_before_restart, S.conflict_limit)
    THEN [sat |-> [S EXCEPT !.stats.restarts = @ + 1,
                            !.conflicts_before_restart = CountOf(0),
                            !.conflict_limit =
                                IF S.restarter = "GEOMETRIC" THEN CountTimes(@, S.limit_mult)
                                ELSE CountTimes(CountOf(S.luby_base),
                                                GetNextLubyNumber(lb).value)],
          luby |-> IF S.restarter = "LUBY" THEN GetNextLubyNumber(lb).luby ELSE lb,
          fire |-> TRUE]
    ELSE [sat |-> [S EXCEPT !.conflicts_before_restart = CountSucc(@)],
          luby |-> lb, fire |-> FALSE]

\* the restarter consulted when a conflict is found: [sat, luby, fire]
ConsultRestarter(S, lb) ==
    IF S.restarter = "GEOMETRIC"
    THEN LET n == CountSucc(S.conflicts_before_restart)
         IN  IF CountGeq(n, S.conflict_limit)
             THEN [sat |-> [S EXCEPT !.stats.restarts = @ + 1,
                                     !.conflicts_before_restart = CountOf(0),
                                     !.conflict_limit = CountTimes(@, S.limit_mult)],
                   luby |-> lb, fire |-> TRUE]
             ELSE [sat |-> [S EXCEPT !.conflicts_before_restart = n],
                   luby |-> lb, fire |-> FALSE]
    ELSE IF S.restarter = "LUBY"
    THEN LET n == CountSucc(S.conflicts_before_restart)
             nxt == GetNextLubyNumber(lb)
         IN  IF CountGeq(n, S.conflict_limit)
             THEN [sat |-> [S EXCEPT !.stats.restarts = @ + 1,
                                     !.conflicts_before_restart = CountOf(0),
                                     !.conflict_limit =
                                         CountTimes(CountOf(S.luby_base), nxt.value)],
                   luby |-> nxt.luby, fire |-> TRUE]
             ELSE [sat |-> [S EXCEPT !.conflicts_before_restart = n],
                   luby |-> lb, fire |-> FALSE]
    ELSE [sat |-> S, luby |-> lb, fire |-> FALSE]

\* a faulty conflict branch: the conflict node is appended twice
BCPConflictTwoRecords(S, lb, clause_id) ==
    Then(ConsultRestarter(S, lb), LAMBDA r :
        IF r.fire
        THEN [sat |-> r.sat, luby |-> r.luby, ret |-> "RESTART"]
        ELSE [sat |-> [r.sat EXCEPT !.assignment_stack =
                          Append(Append(@, AssignedNode(0, FALSE, S.level, clause_id, Len(@))),
                                 AssignedNode(0, FALSE, S.level, clause_id, Len(@) + 1))],
              luby |-> r.luby, ret |-> "CONFLICT"])

\* the conflict branch of BCP for the clause clause_id
BCPConflict(S, lb, clause_id) ==
    Then(ConsultRestarter(S, lb), LAMBDA r :
        IF r.fire
        THEN [sat |-> r.sat, luby |-> r.luby, ret |-> "RESTART"]
        ELSE [sat |-> [r.sat EXCEPT !.assignment_stack =
                          Append(@, AssignedNode(0, FALSE, S.level, clause_id, Len(@)))],
              luby |-> r.luby, ret |-> "CONFLICT"])

\* a faulty implication: nothing is assigned
BCPImplySkips(S, clause_id, other_watch_literal) == S

\* a faulty implication: the clause before clause_id is recorded as the
\* antecedent
BCPImplyWrongAntecedent(S, clause_id, other_watch_literal) ==
    LET var          == GetVarFromLiteral(S, other_watch_literal)
        value_to_set == ~IsNegativeLiteral(S, other_watch_literal)
        recorded     == IF clause_id > 0 THEN clause_id - 1 ELSE clause_id
    IN  Then(PushNode(S, var, value_to_set, S.level, recorded), LAMBDA S1 :
            [S1 EXCEPT !.priority_queue = QueueDropVar(S, var),
                       !.phase = PhaseSet(S, var, value_to_set),
                       !.stats.num_implications = @ + 1])

\* the implication branch of BCP: the other watch of clause_id is made true
BCPImply(S, clause_id, other_watch_literal) ==
    LET var          == GetVarFromLiteral(S, other_watch_literal)
        value_to_set == ~IsNegativeLiteral(S, other_watch_literal)
    IN  Then(PushNode(S, var, value_to_set, S.level, clause_id), LAMBDA S1 :
            [S1 EXCEPT !.priority_queue = QueueDropVar(S, var),
                       !.phase = PhaseSet(S, var, value_to_set),
                       !.stats.num_implications = @ + 1])

\* a faulty inner loop body: a clause that gets a new watcher stays in the
\* watch list of the falsed literal
BCPVisitKeepsOldWatch(S, lb, falsed, clause_id) ==
    LET watch_list == S.literals_watching_c[clause_id + 1]
        other      == IF watch_list[1] = falsed THEN watch_list[2] ELSE watch_list[1]
        other_var  == GetVarFromLiteral(S, other)
    IN  IF LiteralTrue(S, other)
        THEN [sat |-> S, luby |-> lb, ret |-> ""]
        ELSE Then(FindNewWatch(S, clause_id), LAMBDA new_literal_to_watch :
                 IF new_literal_to_watch # -1
                 THEN [sat |-> [S EXCEPT
                          !.literals_watching_c[clause_id + 1] =
                              Append(RemoveFirst(@, falsed), new_literal_to_watch),
                          !.clauses_watched_by_l[new_literal_to_watch] =
                              Append(@, clause_id)],
                       luby |-> lb, ret |-> ""]
                 ELSE IF ~IsAssigned(S, other_var)
                 THEN [sat |-> BCPImply(S, clause_id, other), luby |-> lb, ret |-> ""]
                 ELSE BCPConflict(S, lb, clause_id))

\* the body of the inner while loop for one clause watched by the falsed literal
BCPVisit(S, lb, falsed, clause_id) ==
    LET watch_list == S.literals_watching_c[clause_id + 1]
        other      == IF watch_list[1] = falsed THEN watch_list[2] ELSE watch_list[1]
        other_var  == GetVarFromLiteral(S, other)
    IN  IF LiteralTrue(S, other)
        THEN [sat |-> S, luby |-> lb, ret |-> ""]
        ELSE Then(FindNewWatch(S, clause_id), LAMBDA new_literal_to_watch :
                 IF new_literal_to_watch # -1
                 THEN [sat |-> [S EXCEPT
                          !.literals_watching_c[clause_id + 1] =
                              Append(RemoveFirst(@, falsed), new_literal_to_watch),
                          !.clauses_watched_by_l =
                              [[@ EXCEPT ![falsed] = RemoveFirst(@, clause_id)]
                                  EXCEPT ![new_literal_to_watch] = Append(@, clause_id)]],
                       luby |-> lb, ret |-> ""]
                 ELSE IF ~IsAssigned(S, other_var)
                 THEN [sat |-> BCPImply(S, clause_id, other), luby |-> lb, ret |-> ""]
                 ELSE BCPConflict(S, lb, clause_id))

\* the inner while loop over the (reversed) snapshot of the watch list, for
\* the entries itr..last in order; the loop is left at the first entry that
\* returns.  The range is split in halves to keep the evaluation shallow.
RECURSIVE BCPClauses(_, _, _, _, _, _)
BCPClauses(S, lb, falsed, snapshot, itr, last) ==
    IF itr > last THEN [sat |-> S, luby |-> lb, ret |-> ""]
    ELSE IF itr = last THEN BCPVisit(S, lb, falsed, snapshot[itr])
    ELSE LET mid == (itr + last) \div 2
         IN  Then(BCPClauses(S, lb, falsed, snapshot, itr, mid), LAMBDA r :
                 IF r.ret # "" THEN r
                 ELSE BCPClauses(r.sat, r.luby, falsed, snapshot, mid + 1, last))

\* a faulty body: the snapshot is visited from the oldest clause on
BCPNodeOldestFirst(S, lb, last_assignment_pointer) ==
    LET node   == S.assignment_stack[last_assignment_pointer + 1]
        falsed == IF node.value THEN node.var + S.num_vars ELSE node.var
    IN  Then(S.clauses_watched_by_l[falsed], LAMBDA snapshot :
             BCPClauses(S, lb, falsed, snapshot, 1, Len(snapshot)))

\* the body of the outer while loop for the node at last_assignment_pointer
BCPNode(S, lb, last_assignment_pointer) ==
    LET node   == S.assignment_stack[last_assignment_pointer + 1]
        falsed == IF node.value THEN node.var + S.num_vars ELSE node.var
    IN  Then(Reverse(S.clauses_watched_by_l[falsed]), LAMBDA snapshot :
             BCPClauses(S, lb, falsed, snapshot, 1, Len(snapshot)))

\* one pass of the outer while loop: [sat, luby, ret, ptr]; the loop is left
\* with NO_CONFLICT when the pointer has reached the end of the stack
BCPStep(S, lb, last_assignment_pointer) ==
    IF last_assignment_pointer >= Len(S.assignment_stack)
    THEN [sat |-> S, luby |-> lb, ret |-> "NO_CONFLICT", ptr |-> last_assignment_pointer]
    ELSE Then(BCPNode(S, lb, last_assignment_pointer), LAMBDA r :
             [sat |-> r.sat, luby |-> r.luby, ret |-> r.ret,
              ptr |-> last_assignment_pointer + 1])

\* at most n passes of the outer loop, split in halves to keep the evaluation
\* shallow; the loop is left at the first pass that returns
RECURSIVE BCPSteps(_, _, _, _)
BCPSteps(S, lb, last_assignment_pointer, n) ==
    IF n = 0 THEN [sat |-> S, luby |-> lb, ret |-> "", ptr |-> last_assignment_pointer]
    ELSE IF n = 1 THEN BCPStep(S, lb, last_assignment_pointer)
    ELSE Then(BCPSteps(S, lb, last_assignment_pointer, n \div 2), LAMBDA r :
             IF r.ret # "" THEN r
             ELSE BCPSteps(r.sat, r.luby, r.ptr, n - n \div 2))

\* the outer while loop over the assignment stack from last_assignment_pointer
RECURSIVE BCPNodes(_, _, _)
BCPNodes(S, lb, last_assignment_pointer) ==
    Then(BCPSteps(S, lb, last_assignment_pointer, S.num_vars + 1), LAMBDA r :
        IF r.ret # "" THEN [sat |-> r.sat, luby |-> r.luby, ret |-> r.ret]
        ELSE BCPNodes(r.sat, r.luby, r.ptr))

\* a faulty BCP: is_first_time is ignored and the last node of the stack is
\* always taken as the start
BCPFromLastNode(S, lb, is_first_time) ==
    IF Len(S.assignment_stack) = 0
    THEN [sat |-> S, luby |-> lb, ret |-> "IndexError"]
    ELSE BCPNodes(S, lb, Len(S.assignment_stack) - 1)

\* _boolean_constraint_propogation(is_first_time): [sat, luby, ret]
BooleanConstraintPropogation(S, lb, is_first_time) ==
    IF ~is_first_time /\ Len(S.assignment_stack) = 0
    THEN [sat |-> S, luby |-> lb, ret |-> "IndexError"]   \* stack[-1] of an empty list
    ELSE BCPNodes(S, lb, IF is_first_time THEN 0 ELSE Len(S.assignment_stack) - 1)

(***************************************************************************)
(* Conflict analysis.                                                      *)
(***************************************************************************)
\* a faulty resolution: the last literal of the second clause is left out
BinaryResoluteDropsLiteral(S, clause1, clause2, var) ==
    Then(Dedup(clause1 \o SubSeq(clause2, 1, Len(clause2) - 1)), LAMBDA full_clause :
        SelectSeq(full_clause, LAMBDA lit : lit # var /\ lit # var + S.num_vars))

\* _binary_resolute(clause1, clause2, var); both literals of var are present
BinaryResolute(S, clause1, clause2, var) ==
    Then(Dedup(clause1 \o clause2), LAMBDA full_clause :
    Then(RemoveFirst(full_clause, var), LAMBDA rest :
        RemoveFirst(rest, var + S.num_vars)))

NodeOfLiteral(S, lit) == S.variable_to_assignment_nodes[GetVarFromLiteral(S, lit)]

\* a faulty test: every clause is taken to have one literal at the level
IsValidClauseAlways(S, clause, level) == [nice |-> TRUE, cand |-> NoNode]

\* a faulty choice: the node of least index among the literals at the level
IsValidClauseEarliest(S, clause, level) ==
    LET at == {i \in 1..Len(clause) : NodeOfLiteral(S, clause[i]).level = level}
    IN  [nice |-> Cardinality(at) = 1,
         cand |-> IF at = {} THEN NoNode
                  ELSE NodeOfLiteral(S, clause[CHOOSE i \in at : \A j \in at :
                           NodeOfLiteral(S, clause[i]).index
                               <= NodeOfLiteral(S, clause[j]).index])]

\* _is_valid_clause(clause, level): [nice, cand]; the counter is the number of
\* literals of the clause assigned at level, and cand is the node of greatest
\* index among them (NoNode when there is none)
IsValidClause(S, clause, level) ==
    LET at == {i \in 1..Len(clause) : NodeOfLiteral(S, clause[i]).level = level}
    IN  [nice |-> Cardinality(at) = 1,
         cand |-> IF at = {} THEN NoNode
                  ELSE NodeOfLiteral(S, clause[CHOOSE i \in at : \A j \in at :
                           NodeOfLiteral(S, clause[i]).index
                               >= NodeOfLiteral(S, clause[j]).index])]

\* _get_backtrack_level(conflict_clause, conflict_level): [level, literal]
RECURSIVE GetBacktrackLevelFrom(_, _, _, _, _, _)
GetBacktrackLevelFrom(S, clause, conflict_level, i, maxlevel, literal) ==
    IF i > Len(clause) THEN [level |-> maxlevel, literal |-> literal]
    ELSE LET node == NodeOfLiteral(S, clause[i])
         IN  IF node.level = conflict_level
             THEN GetBacktrackLevelFrom(S, clause, conflict_level, i + 1, maxlevel, clause[i])
             ELSE GetBacktrackLevelFrom(S, clause, conflict_level, i + 1,
                                        IF node.level > maxlevel THEN node.level ELSE maxlevel,
                                        literal)

\* a faulty result: the level to return to is always 0
GetBacktrackLevelZero(S, clause, conflict_level) ==
    [level |-> 0,
     literal |-> GetBacktrackLevelFrom(S, clause, conflict_level, 1, -1, -1).literal]

GetBacktrackLevel(S, clause, conflict_level) ==
    GetBacktrackLevelFrom(S, clause, conflict_level, 1, -1, -1)

\* a step of the resolution loop raises an exception when a literal of the
\* clause is unassigned (KeyError), when no literal is at the conflict level
\* or the latest one has no antecedent (no clause to resolve with), or when
\* one of the two literals of the pivot is missing (ValueError of remove)
ResolutionFails(S, clause, level) ==
    \/ \E i \in 1..Len(clause) : ~IsAssigned(S, GetVarFromLiteral(S, clause[i]))
    \/ \E v \in {IsValidClause(S, clause, level)} :
           /\ ~v.nice
           /\ \/ v.cand.var = 0
              \/ v.cand.clause = NoClause
              \/ \E full \in {clause \o S.clauses[v.cand.clause + 1]} :
                     ~Contains(full, v.cand.var) \/ ~Contains(full, v.cand.var + S.num_vars)

\* one pass of the while loop of _analyze_conflict: [clause, done]; done is
\* TRUE when the loop is left, with the final conflict clause, or with <<>>
\* when the pass raises an exception
ResolveStep(S, conflict_clause, conflict_level) ==
    IF ResolutionFails(S, conflict_clause, conflict_level)
    THEN [clause |-> <<>>, done |-> TRUE]
    ELSE Then(IsValidClause(S, conflict_clause, conflict_level), LAMBDA v :
             IF v.nice THEN [clause |-> conflict_clause, done |-> TRUE]
             ELSE [clause |-> BinaryResolute(S, conflict_clause,
                                             S.clauses[v.cand.clause + 1], v.cand.var),
                   done |-> FALSE])

\* at most n passes of the loop, split in halves to keep the evaluation shallow
RECURSIVE ResolveSteps(_, _, _, _)
ResolveSteps(S, conflict_clause, conflict_level, n) ==
    IF n = 0 THEN [clause |-> conflict_clause, done |-> FALSE]
    ELSE IF n = 1 THEN ResolveStep(S, conflict_clause, conflict_level)
    ELSE Then(ResolveSteps(S, conflict_clause, conflict_level, n \div 2), LAMBDA r :
             IF r.done THEN r
             ELSE ResolveSteps(S, r.clause, conflict_level, n - n \div 2))

\* the while loop of _analyze_conflict: the final conflict clause, or <<>>
\* when the loop raises an exception
RECURSIVE ResolveToUIP(_, _, _)
ResolveToUIP(S, conflict_clause, conflict_level) ==
    Then(ResolveSteps(S, conflict_clause, conflict_level, Len(S.assignment_stack) + 1),
         LAMBDA r : IF r.done THEN r.clause
                    ELSE ResolveToUIP(S, r.clause, conflict_level))

\* the learned clause (length > 1) is stored with its first two literals as
\* watchers, and its literals (VSIDS) or variables (MINISAT) are bumped
RECURSIVE BumpLearned(_, _, _)
BumpLearned(S, clause, i) ==
    IF i > Len(clause) THEN S
    ELSE LET key == IF S.decider = "VSIDS" THEN clause[i]
                    ELSE GetVarFromLiteral(S, clause[i])
         IN  Then([S EXCEPT !.lit_scores = IF S.decider = "VSIDS"
                                          THEN [@ EXCEPT ![key] = @ + S.incr] ELSE @,
                           !.var_scores = IF S.decider = "MINISAT"
                                          THEN [@ EXCEPT ![key] = @ + S.incr] ELSE @,
                           !.priority_queue = PQIncreaseUpdate(@, key, S.incr)],
                  LAMBDA S1 : BumpLearned(S1, clause, i + 1))

VsidsIncrStep == 3               \* _incr += 0.75, in units of 1/VsidsUnit

\* a faulty store: the learned clause is entered in front of the list
StoreLearnedInFront(S, conflict_clause) ==
    LET clause_id == S.num_clauses
    IN  Then([S EXCEPT
                 !.stats.num_learned_clauses = @ + 1,
                 !.num_clauses = @ + 1,
                 !.clauses = <<conflict_clause>> \o @,
                 !.clauses_watched_by_l =
                     [[@ EXCEPT ![conflict_clause[1]] = Append(@, clause_id)]
                         EXCEPT ![conflict_clause[2]] = Append(@, clause_id)],
                 !.literals_watching_c = Append(@, <<conflict_clause[1], conflict_clause[2]>>)],
             LAMBDA S1 :
        IF S.decider = "VSIDS"
        THEN [BumpLearned(S1, conflict_clause, 1) EXCEPT !.incr = @ + VsidsIncrStep]
        ELSE IF S.decider = "MINISAT"
        THEN [BumpLearned(S1, conflict_clause, 1) EXCEPT !.incr = (@ * DecayDen) \div DecayNum]
        ELSE S1)

StoreLearned(S, conflict_clause) ==
    LET clause_id == S.num_clauses
    IN  Then([S EXCEPT
                 !.stats.num_learned_clauses = @ + 1,
                 !.num_clauses = @ + 1,
                 !.clauses = Append(@, conflict_clause),
                 !.clauses_watched_by_l =
                     [[@ EXCEPT ![conflict_clause[1]] = Append(@, clause_id)]
                         EXCEPT ![conflict_clause[2]] = Append(@, clause_id)],
                 !.literals_watching_c = Append(@, <<conflict_clause[1], conflict_clause[2]>>)],
             LAMBDA S1 :
        IF S.decider = "VSIDS"
        THEN [BumpLearned(S1, conflict_clause, 1) EXCEPT !.incr = @ + VsidsIncrStep]
        ELSE IF S.decider = "MINISAT"
        THEN [BumpLearned(S1, conflict_clause, 1) EXCEPT !.incr = (@ * DecayDen) \div DecayNum]
        ELSE S1)

\* a faulty else branch: the clause of one literal is stored in the database
AssertUnitStoresClause(S, conflict_clause) ==
    LET literal == conflict_clause[1]
    IN  [sat |-> [S EXCEPT !.clauses = Append(@, conflict_clause),
                           !.num_clauses = @ + 1,
                           !.literals_watching_c = Append(@, <<literal, literal>>),
                           !.clauses_watched_by_l[literal] = Append(@, S.num_clauses)],
         backtrack_level |-> 0,
         node |-> AssignedNode(GetVarFromLiteral(S, literal),
                               ~IsNegativeLiteral(S, literal), 0, NoClause, -1),
         err |-> FALSE]

\* the else branch of _analyze_conflict for a learned clause of one literal:
\* level 0 and a node without antecedent; nothing is stored or bumped
AssertUnit(S, conflict_clause) ==
    LET literal == conflict_clause[1]
    IN  [sat |-> S, backtrack_level |-> 0,
         node |-> AssignedNode(GetVarFromLiteral(S, literal),
                               ~IsNegativeLiteral(S, literal), 0, NoClause, -1),
         err |-> FALSE]

\* _analyze_conflict(): [sat, backtrack_level, node, err]
AnalyzeConflict(S) ==
    LET conflict_node  == S.assignment_stack[Len(S.assignment_stack)]
        conflict_level == conflict_node.level
    IN  Then([S EXCEPT !.assignment_stack = SubSeq(@, 1, Len(@) - 1)], LAMBDA S0 :
        IF conflict_level = 0
        THEN [sat |-> S0, backtrack_level |-> -1, node |-> NoNode, err |-> FALSE]
        ELSE Then(ResolveToUIP(S0, S.clauses[conflict_node.clause + 1], conflict_level),
                  LAMBDA conflict_clause :
                 IF conflict_clause = <<>>
                 THEN [sat |-> S0, backtrack_level |-> -1, node |-> NoNode, err |-> TRUE]
                 ELSE IF Len(conflict_clause) > 1
                 THEN Then(StoreLearned(S0, conflict_clause), LAMBDA S1 :
                      Then(GetBacktrackLevel(S1, conflict_clause, conflict_level), LAMBDA b :
                          [sat |-> S1, backtrack_level |-> b.level,
                           node |-> AssignedNode(GetVarFromLiteral(S1, b.literal),
                                                 ~IsNegativeLiteral(S1, b.literal),
                                                 b.level, S0.num_clauses, -1),
                           err |-> FALSE]))
                 ELSE AssertUnit(S0, conflict_clause)))

(***************************************************************************)
(* Backtracking and deciding.                                              *)
(***************************************************************************)
\* a faulty backtrack step: the unset variable is not put back in the queue
QueueAddVarForgets(S, var) == S.priority_queue

\* a faulty backtrack step: the unset variable goes back with priority 0
QueueAddVarZeroScore(S, var) ==
    IF S.decider = "VSIDS"
    THEN Then(PQAdd(S.priority_queue, var, 0), LAMBDA q1 : PQAdd(q1, var + S.num_vars, 0))
    ELSE IF S.decider = "MINISAT" THEN PQAdd(S.priority_queue, var, 0)
    ELSE S.priority_queue

\* a variable is unset: its literals (VSIDS) or itself (MINISAT) go back
\* into the priority queue with the current scores
QueueAddVar(S, var) ==
    IF S.decider = "VSIDS"
    THEN Then(PQAdd(S.priority_queue, var, S.lit_scores[var]), LAMBDA q1 :
              PQAdd(q1, var + S.num_vars, S.lit_scores[var + S.num_vars]))
    ELSE IF S.decider = "MINISAT" THEN PQAdd(S.priority_queue, var, S.var_scores[var])
    ELSE S.priority_queue

\* a faulty pass: the phase of the variable popped is reset to 0
UnwindOneForgetsPhase(S, backtrack_level) ==
    LET n == Len(S.assignment_stack)
    IN  IF n = 0 THEN S
        ELSE IF S.assignment_stack[n].level <= backtrack_level THEN S
        ELSE LET node == S.assignment_stack[n]
             IN  [S EXCEPT !.variable_to_assignment_nodes[node.var] = NoNode,
                           !.assignment_stack = SubSeq(@, 1, n - 1),
                           !.priority_queue = QueueAddVar(S, node.var),
                           !.phase = IF S.decider = "MINISAT"
                                     THEN [@ EXCEPT ![node.var] = 0] ELSE @]

\* a faulty pass: the node popped stays in the dict of the variables
UnwindOneKeepsDict(S, backtrack_level) ==
    LET n == Len(S.assignment_stack)
    IN  IF n = 0 THEN S
        ELSE IF S.assignment_stack[n].level <= backtrack_level THEN S
        ELSE LET node == S.assignment_stack[n]
             IN  [S EXCEPT !.assignment_stack = SubSeq(@, 1, n - 1),
                           !.priority_queue = QueueAddVar(S, node.var)]

\* one pass of the loop of _backtrack: the last node is popped when its level
\* is > backtrack_level, and nothing changes once the loop has been left
UnwindOne(S, backtrack_level) ==
    LET n == Len(S.assignment_stack)
    IN  IF n = 0 THEN S
        ELSE IF S.assignment_stack[n].level <= backtrack_level THEN S
        ELSE LET node == S.assignment_stack[n]
             IN  [S EXCEPT !.variable_to_assignment_nodes[node.var] = NoNode,
                           !.assignment_stack = SubSeq(@, 1, n - 1),
                           !.priority_queue = QueueAddVar(S, node.var)]

\* at most n passes of the loop, split in halves to keep the evaluation shallow
RECURSIVE UnwindSteps(_, _, _)
UnwindSteps(S, backtrack_level, n) ==
    IF n = 0 THEN S
    ELSE IF n = 1 THEN UnwindOne(S, backtrack_level)
    ELSE Then(UnwindSteps(S, backtrack_level, n \div 2), LAMBDA S1 :
             UnwindSteps(S1, backtrack_level, n - n \div 2))

\* the loop of _backtrack that pops the nodes of level > backtrack_level: it
\* is left after at most as many passes as the stack has nodes
Unwind(S, backtrack_level) == UnwindSteps(S, backtrack_level, Len(S.assignment_stack))

\* a faulty backtrack: the decision level of the solver is left as it was
BacktrackKeepsLevel(S, backtrack_level, node_to_add) ==
    Then(Unwind(S, backtrack_level), LAMBDA S1 :
        IF node_to_add = NoNode THEN S1
        ELSE Then(PushNode(S1, node_to_add.var, node_to_add.value,
                           node_to_add.level, node_to_add.clause), LAMBDA S2 :
                 [S2 EXCEPT !.priority_queue = QueueDropVar(S1, node_to_add.var),
                            !.phase = PhaseSet(S1, node_to_add.var, node_to_add.value),
                            !.stats.num_implications = @ + 1]))

\* a faulty backtrack: a restart (no node to add) empties the trail
BacktrackRestartClears(S, backtrack_level, node_to_add) ==
    IF node_to_add # NoNode THEN BacktrackKeepsLevel([S EXCEPT !.level = backtrack_level],
                                                     backtrack_level, node_to_add)
    ELSE Unwind([S EXCEPT !.level = backtrack_level], -1)

\* _backtrack(backtrack_level, node_to_add); node_to_add = NoNode is None
Backtrack(S, backtrack_level, node_to_add) ==
    Then([S EXCEPT !.level = backtrack_level], LAMBDA S0 :
    Then(Unwind(S0, backtrack_level), LAMBDA S1 :
        IF node_to_add = NoNode THEN S1
        ELSE Then(PushNode(S1, node_to_add.var, node_to_add.value,
                           node_to_add.level, node_to_add.clause), LAMBDA S2 :
                 [S2 EXCEPT !.priority_queue = QueueDropVar(S1, node_to_add.var),
                            !.phase = PhaseSet(S1, node_to_add.var, node_to_add.value),
                            !.stats.num_implications = @ + 1])))

\* the smallest unassigned variable, or -1
RECURSIVE FirstUnassignedFrom(_, _)
FirstUnassignedFrom(S, x) ==
    IF x > S.num_vars THEN -1
    ELSE IF ~IsAssigned(S, x) THEN x
    ELSE FirstUnassignedFrom(S, x + 1)

\* a faulty choice: under VSIDS the complement of the literal extracted stays
\* in the queue
DecideChoiceLeavesComplement(S) ==
    IF S.decider = "ORDERED"
    THEN [sat |-> S, var |-> FirstUnassignedFrom(S, 1), value |-> TRUE]
    ELSE Then(PQGetTop(S.priority_queue), LAMBDA g :
             [sat |-> [S EXCEPT !.priority_queue = g.q],
              var |-> IF g.top = -1 \/ S.decider = "MINISAT" THEN g.top
                      ELSE GetVarFromLiteral(S, g.top),
              value |-> IF g.top = -1 THEN FALSE
                        ELSE IF S.decider = "MINISAT" THEN S.phase[g.top] # 0
                        ELSE ~IsNegativeLiteral(S, g.top)])

\* the choice made by _decide(): [sat, var, value]; var = -1 when nothing is left
DecideChoice(S) ==
    IF S.decider = "ORDERED"
    THEN [sat |-> S, var |-> FirstUnassignedFrom(S, 1), value |-> TRUE]
    ELSE IF S.decider = "VSIDS"
    THEN Then(PQGetTop(S.priority_queue), LAMBDA g :
             IF g.top = -1 THEN [sat |-> [S EXCEPT !.priority_queue = g.q],
                                 var |-> -1, value |-> FALSE]
             ELSE LET var    == GetVarFromLiteral(S, g.top)
                      is_neg == IsNegativeLiteral(S, g.top)
                  IN  [sat |-> [S EXCEPT !.priority_queue =
                                   IF is_neg THEN PQRemove(g.q, var)
                                   ELSE PQRemove(g.q, var + S.num_vars)],
                       var |-> var, value |-> ~is_neg])
    ELSE Then(PQGetTop(S.priority_queue), LAMBDA g :
             [sat |-> [S EXCEPT !.priority_queue = g.q], var |-> g.top,
              value |-> IF g.top = -1 THEN FALSE ELSE S.phase[g.top] # 0])

\* a faulty decide: the record is pushed with the level before the decision
DecideAtOldLevel(S) ==
    Then(DecideChoice(S), LAMBDA c :
        IF c.var = -1 THEN [sat |-> c.sat, var |-> -1]
        ELSE Then([c.sat EXCEPT !.level = @ + 1, !.stats.num_decisions = @ + 1],
                  LAMBDA S1 :
                 [sat |-> PushNode(S1, c.var, c.value, S.level, NoClause),
                  var |-> c.var]))

\* _decide(): [sat, var]
Decide(S) ==
    Then(DecideChoice(S), LAMBDA c :
        IF c.var = -1 THEN [sat |-> c.sat, var |-> -1]
        ELSE Then([c.sat EXCEPT !.level = @ + 1, !.stats.num_decisions = @ + 1],
                  LAMBDA S1 :
                 [sat |-> PushNode(S1, c.var, c.value, S.level + 1, NoClause),
                  var |-> c.var]))

(***************************************************************************)
(* The inputs.  A bounded family of input files over PoolVars variables:   *)
(* up to MaxClauses lines of Pool, and the complete formula with up to     *)
(* MaxDropped of its lines left out, each in file order or in reverse.     *)
(***************************************************************************)
PoolVars == 3
MaxClauses == 4
MaxDropped == 2

Pool == << <<1, 0>>, <<1, 1, 0>>, <<-1, 0>>, <<-3, 0>>,
           <<1, 2, 0>>, <<-1, 2, 0>>, <<1, -2, 0>>, <<-1, -2, 0>>,
           <<-2, 3, 0>>, <<-1, -2, 3, 0>>, <<-1, -2, -3, 0>>, <<2, -3, -3, 1, 0>> >>

\* the complete formula over v variables: one clause for each of the 2^v
\* sign patterns
CompleteCNF(v) ==
    [k \in 1..(2 ^ v) |->
        [i \in 1..(v + 1) |->
            IF i = v + 1 THEN 0
            ELSE IF ((k - 1) \div (2 ^ (v - i))) % 2 = 0 THEN i ELSE -i]]

RECURSIVE Ascending(_)
Ascending(set) ==
    IF set = {} THEN <<>>
    ELSE LET m == CHOOSE x \in set : \A y \in set : x <= y
         IN  <<m>> \o Ascending(set \ {m})

\* the lines of a file whose numbers are in set, in order or reversed
LinesOf(file, set, reversed) ==
    LET idx == IF reversed THEN Reverse(Ascending(set)) ELSE Ascending(set)
    IN  [i \in 1..Len(idx) |-> file[idx[i]]]

Inputs ==
    {[n |-> PoolVars, cls |-> LinesOf(Pool, set, reversed)] :
        set \in {x \in SUBSET (1..Len(Pool)) : Cardinality(x) <= MaxClauses},
        reversed \in BOOLEAN}
    \cup
    {[n |-> PoolVars, cls |-> LinesOf(CompleteCNF(PoolVars), set, reversed)] :
        set \in {x \in SUBSET (1..(2 ^ PoolVars)) :
                    Cardinality(x) >= 2 ^ PoolVars - MaxDropped},
        reversed \in BOOLEAN}

DeciderNames == Deciders \cup {"RANDOM"}
RestarterNames == {NoRestarter} \cup Restarters \cup {"FIXED"}

(***************************************************************************)
(* The program: construction, solve() reading the file, the main loop.     *)
(***************************************************************************)
InitialFrame == [first_time |-> TRUE, result |-> "", backtrack_level |-> 0,
                 node_to_add |-> NoNode]
InitialCalls == [bcp |-> 0, analyze |-> 0, backtrack |-> 0, decide |-> 0]

QueueIdle == queue = NoQueue /\ op = "none" /\ top = 0

InitWith(argSet, inputSet) ==
    /\ pc = "new"
    /\ args \in argSet
    /\ input \in inputSet
    /\ line = 0
    /\ sat = BlankSat
    /\ luby = LubyInitial
    /\ frame = InitialFrame
    /\ calls = InitialCalls
    /\ QueueIdle

Init == InitWith([decider : DeciderNames, restarter : RestarterNames], Inputs)

\* sat = SAT(to_log, decider, restarter)
Construct ==
    /\ pc = "new"
    /\ \E r \in {SatInit(args.decider, args.restarter, luby)} :
           /\ pc' = IF r.ok THEN "read_p" ELSE "error"
           /\ sat' = r.sat
           /\ luby' = r.luby
    /\ UNCHANGED <<args, input, line, frame, calls, queue, op, top>>

\* read_dimacs_cnf_file: the p line
ReadProblemLine ==
    /\ pc = "read_p"
    /\ sat' = ReadProblem(sat, input.n)
    /\ pc' = IF Len(input.cls) = 0 THEN "read_end" ELSE "read"
    /\ UNCHANGED <<args, input, line, luby, frame, calls, queue, op, top>>

\* read_dimacs_cnf_file: one clause line; reading stops when _add_clause
\* returns 0 and when the file ends
ReadClauseLine ==
    /\ pc = "read"
    /\ \E r \in {AddClause(sat, input.cls[line + 1])} :
           /\ sat' = r.sat
           /\ pc' = IF r.ret = 0 \/ line + 1 = Len(input.cls) THEN "read_end" ELSE "read"
    /\ line' = line + 1
    /\ UNCHANGED <<args, input, luby, frame, calls, queue, op, top>>

\* the end of read_dimacs_cnf_file and the test of solve() on the result
FinishRead ==
    /\ pc = "read_end"
    /\ sat' = [FinishReading(sat) EXCEPT !.stats.num_vars = sat.num_vars,
                                        !.stats.num_clauses = sat.num_clauses]
    /\ pc' = IF sat.stats.result = "UNSAT" THEN "done" ELSE "bcp"
    /\ frame' = [frame EXCEPT !.first_time = TRUE]
    /\ UNCHANGED <<args, input, line, luby, calls, queue, op, top>>

\* the inner loop of solve(): one call of BCP and the branch on its result
Propagate ==
    /\ pc = "bcp"
    /\ \E r \in {BooleanConstraintPropogation(sat, luby, frame.first_time)} :
           /\ sat' = r.sat
           /\ luby' = r.luby
           /\ frame' = [frame EXCEPT !.result = r.ret,
                                     !.first_time = IF r.ret = "RESTART" THEN @ ELSE FALSE]
           /\ pc' = CASE r.ret = "NO_CONFLICT" -> "decide"
                      [] r.ret = "RESTART"     -> "restart"
                      [] r.ret = "CONFLICT"    -> "analyze"
                      [] OTHER                 -> "crashed"
    /\ calls' = [calls EXCEPT !.bcp = @ + 1]
    /\ UNCHANGED <<args, input, line, queue, op, top>>

\* _analyze_conflict() and the test for backtrack level -1.  The bumps of
\* MINISAT are exact up to learned clause MaxBumps + 1; the step is not taken
\* beyond.
Analyze ==
    /\ pc = "analyze"
    /\ \E r \in {AnalyzeConflict(sat)} :
           /\ ~(sat.decider = "MINISAT" /\ r.sat.stats.num_learned_clauses > MaxBumps + 1)
           /\ sat' = IF ~r.err /\ r.backtrack_level = -1
                     THEN [r.sat EXCEPT !.stats.result = "UNSAT"] ELSE r.sat
           /\ frame' = [frame EXCEPT !.backtrack_level = r.backtrack_level,
                                     !.node_to_add = r.node]
           /\ pc' = IF r.err THEN "crashed"
                    ELSE IF r.backtrack_level = -1 THEN "done" ELSE "backtrack"
    /\ calls' = [calls EXCEPT !.analyze = @ + 1]
    /\ UNCHANGED <<args, input, line, luby, queue, op, top>>

\* _backtrack: with the asserting node after an analysis (BCP follows), or to
\* level 0 with None when BCP returned RESTART (the decision follows)
BacktrackStep ==
    /\ pc \in {"backtrack", "restart"}
    /\ IF pc = "restart"
       THEN /\ sat' = Backtrack(sat, 0, NoNode)
            /\ pc' = "decide"
            /\ frame' = [frame EXCEPT !.first_time = FALSE]
       ELSE /\ sat' = Backtrack(sat, frame.backtrack_level, frame.node_to_add)
            /\ pc' = "bcp"
            /\ frame' = frame
    /\ calls' = [calls EXCEPT !.backtrack = @ + 1]
    /\ UNCHANGED <<args, input, line, luby, queue, op, top>>

\* _decide() and the test for -1
DecideStep ==
    /\ pc = "decide"
    /\ \E r \in {Decide(sat)} :
           /\ sat' = IF r.var = -1 THEN [r.sat EXCEPT !.stats.result = "SAT"] ELSE r.sat
           /\ pc' = IF r.var = -1 THEN "done" ELSE "bcp"
    /\ calls' = [calls EXCEPT !.decide = @ + 1]
    /\ UNCHANGED <<args, input, line, luby, frame, queue, op, top>>

Next ==
    \/ Construct
    \/ ReadProblemLine
    \/ ReadClauseLine
    \/ FinishRead
    \/ Propagate
    \/ Analyze
    \/ BacktrackStep
    \/ DecideStep

Spec == Init /\ [][Next]_vars

(***************************************************************************)
(* Files over HornVars variables whose unary clauses start chains of       *)
(* implications: up to MaxHornClauses lines of HornPool, in file order or  *)
(* in reverse.  The first four lines are the Horn chain 1, -1 2, -2 3,     *)
(* -3 4.                                                                   *)
(***************************************************************************)
HornVars == 4
MaxHornClauses == 5

HornPool == << <<1, 0>>, <<-1, 2, 0>>, <<-2, 3, 0>>, <<-3, 4, 0>>,
               <<-2, -3, 0>>, <<3, 4, 0>>, <<-1, -2, 4, 0>>, <<-4, 0>>,
               <<2, 2, 0>> >>

HornInputs ==
    {[n |-> HornVars, cls |-> LinesOf(HornPool, set, reversed)] :
        set \in {x \in SUBSET (1..Len(HornPool)) : Cardinality(x) <= MaxHornClauses},
        reversed \in BOOLEAN}

InitHorn ==
    InitWith([decider : Deciders, restarter : {NoRestarter} \cup Restarters], HornInputs)

SpecHorn == InitHorn /\ [][Next]_vars

(***************************************************************************)
(* Files over JumpVars variables with conflicts whose learned clause has   *)
(* no literal of the level just below the conflict: up to MaxJumpClauses   *)
(* lines of JumpPool, in file order or in reverse.                         *)
(***************************************************************************)
JumpVars == 4
MaxJumpClauses == 5

JumpPool == << <<-1, -3, 4, 0>>, <<-1, -3, -4, 0>>, <<1, -3, 4, 0>>, <<1, -3, -4, 0>>,
               <<-2, -4, 3, 0>>, <<2, 3, 0>>, <<-1, 2, -4, 0>>, <<1, 0>> >>

JumpInputs ==
    {[n |-> JumpVars, cls |-> LinesOf(JumpPool, set, reversed)] :
        set \in {x \in SUBSET (1..Len(JumpPool)) : Cardinality(x) <= MaxJumpClauses},
        reversed \in BOOLEAN}

InitJump ==
    InitWith([decider : Deciders, restarter : {NoRestarter} \cup Restarters], JumpInputs)

SpecJump == InitJump /\ [][Next]_vars

(***************************************************************************)
(* The complete formula over LongVars variables.  No assignment satisfies  *)
(* it, and it drives the solver through InitialConflictLimit conflicts.    *)
(***************************************************************************)
LongVars == 10

InitLong ==
    InitWith([decider : {"ORDERED"}, restarter : {NoRestarter} \cup Restarters],
             {[n |-> LongVars, cls |-> CompleteCNF(LongVars)]})

SpecLong == InitLong /\ [][Next]_vars

(***************************************************************************)
(* Input files over WatchVars variables in which learned clauses hold      *)
(* literals that are false at level 0: up to MaxWatchClauses lines of      *)
(* WatchPool, in file order.                                               *)
(***************************************************************************)
WatchVars == 4
MaxWatchClauses == 5

WatchPool == << <<2, 3, 0>>, <<2, -3, 0>>, <<-2, 3, 4, -1, 0>>, <<-4, 0>>, <<-3, -1, -2, 0>>,
                <<-4, -1, -2, 0>>, <<4, -1, -3, -2, 0>>, <<3, 0>>,
                <<3, 4, 1, 0>>, <<3, 2, 1, -4, 0>>, <<-2, 1, 0>>, <<-3, 3, -2, 0>> >>

WatchInputs ==
    {[n |-> WatchVars, cls |-> LinesOf(WatchPool, set, FALSE)] :
        set \in {x \in SUBSET (1..Len(WatchPool)) : Cardinality(x) <= MaxWatchClauses}}

InitWatch ==
    InitWith([decider : Deciders, restarter : {NoRestarter} \cup Restarters], WatchInputs)

SpecWatch == InitWatch /\ [][Next]_vars

(***************************************************************************)
(* Restarts.  The input of InitDeep is the unary clause of one more        *)
(* variable followed by the pigeonhole formula of Pigeons pigeons and      *)
(* Pigeons - 1 holes (variable (i-1)*(Pigeons-1)+j: pigeon i is in hole    *)
(* j): the conflict that reaches the first limit is found above level 0,   *)
(* with a record of level 0 on the trail.  InitRestarter is a solver just  *)
(* constructed, and ConflictFound is the branch of BCP that has found a    *)
(* falsified clause: the restarter is consulted and BCP returns RESTART    *)
(* or CONFLICT.  It is followed for MaxConflicts conflicts, through the    *)
(* limits that the search of the pigeonhole formula does not reach.        *)
(***************************************************************************)
Pigeons == 7
MaxConflicts == 6200

PigeonVar(p, i, j) == (i - 1) * (p - 1) + j

\* pigeon i is in some hole
PigeonLines(p) ==
    [i \in 1..p |-> [j \in 1..p |-> IF j = p THEN 0 ELSE PigeonVar(p, i, j)]]

\* the pairs <<a, b>> of pigeons with a0 <= a < b, in lexicographic order
RECURSIVE PigeonPairs(_, _)
PigeonPairs(p, a0) ==
    IF a0 >= p THEN <<>>
    ELSE [k \in 1..(p - a0) |-> <<a0, a0 + k>>] \o PigeonPairs(p, a0 + 1)

\* no two pigeons are in the same hole: by hole from j0 on, then by pair
RECURSIVE HoleLines(_, _)
HoleLines(p, j0) ==
    IF j0 > p - 1 THEN <<>>
    ELSE [k \in 1..Len(PigeonPairs(p, 1)) |->
             <<0 - PigeonVar(p, PigeonPairs(p, 1)[k][1], j0),
               0 - PigeonVar(p, PigeonPairs(p, 1)[k][2], j0), 0>>]
         \o HoleLines(p, j0 + 1)

DeepInput ==
    [n |-> Pigeons * (Pigeons - 1) + 1,
     cls |-> << <<Pigeons * (Pigeons - 1) + 1, 0>> >>
                 \o PigeonLines(Pigeons) \o HoleLines(Pigeons, 1)]

InitDeep ==
    InitWith([decider : {"ORDERED"}, restarter : Restarters], {DeepInput})

InitRestarter ==
    /\ pc = "restarter"
    /\ args \in [decider : {"ORDERED"}, restarter : {NoRestarter} \cup Restarters]
    /\ input = [n |-> 0, cls |-> <<>>]
    /\ line = 0
    /\ sat = SatInit(args.decider, args.restarter, LubyInitial).sat
    /\ luby = SatInit(args.decider, args.restarter, LubyInitial).luby
    /\ frame = InitialFrame
    /\ calls = InitialCalls
    /\ QueueIdle

\* the conflict branch of a BCP call
ConflictFound ==
    /\ pc = "restarter"
    /\ calls.bcp < MaxConflicts
    /\ \E r \in {ConsultRestarter(sat, luby)} :
           /\ sat' = r.sat
           /\ luby' = r.luby
           /\ frame' = [frame EXCEPT !.result = IF r.fire THEN "RESTART" ELSE "CONFLICT"]
    /\ calls' = [calls EXCEPT !.bcp = @ + 1]
    /\ UNCHANGED <<pc, args, input, line, queue, op, top>>

\* SAT(to_log, decider, "LUBY") is called once more, between two periods of
\* the first solver; the second solver is not run
ConstructSecond ==
    /\ pc = "restarter"
    /\ op = "none"
    /\ sat.conflicts_before_restart = CountOf(0)
    /\ luby' = SatInit(args.decider, "LUBY", luby).luby
    /\ op' = "SAT"
    /\ UNCHANGED <<pc, args, input, line, sat, frame, calls, queue, top>>

NextRestart ==
    \/ Next
    \/ ConflictFound

SpecRestart == (InitDeep \/ InitRestarter) /\ [][NextRestart]_vars

NextTwoSolvers ==
    \/ ConflictFound
    \/ ConstructSecond

SpecTwoSolvers == InitRestarter /\ [][NextTwoSolvers]_vars

(***************************************************************************)
(* The LUBY restarter late in a long run: LateRestarts restarts have       *)
(* fired, LateRestarts + 1 Luby numbers have been drawn since reset_luby() *)
(* (the last number pushed from mult was the 2^27 at index 2^28 - 1), and  *)
(* the count of conflicts is one below the limit.                          *)
(***************************************************************************)
LateRestarts == 2 ^ 29 - 3

LubyAfterLateRestarts ==
    [l |-> <<>>, mult |-> 2 ^ 28, minu |-> 2 ^ 28 - 1, base |-> LateRestarts + 1]

InitLateRestarter ==
    /\ pc = "restarter"
    /\ args = [decider |-> "ORDERED", restarter |-> "LUBY"]
    /\ input = [n |-> 0, cls |-> <<>>]
    /\ line = 0
    /\ sat = [SatInit(args.decider, args.restarter, LubyInitial).sat EXCEPT
                  !.stats.restarts = LateRestarts,
                  !.conflict_limit =
                      CountTimes(CountOf(LubyBase), LubyValue(LateRestarts + 1)),
                  !.conflicts_before_restart =
                      Count((LubyBase \div LimitUnit) * LubyValue(LateRestarts + 1) - 1,
                            LimitUnit - 1)]
    /\ luby = LubyAfterLateRestarts
    /\ frame = InitialFrame
    /\ calls = InitialCalls
    /\ QueueIdle

SpecLateRestart == (InitRestarter \/ InitLateRestarter) /\ [][ConflictFound]_vars

(***************************************************************************)
(* Scores.  SmallPigeons pigeons in one hole less, solved with the deciders *)
(* that keep scores: learned clauses follow one another, and literals that *)
(* they have bumped are unset and go back into the queue.                  *)
(***************************************************************************)
SmallPigeons == 4

ScoreInput == [n |-> SmallPigeons * (SmallPigeons - 1),
               cls |-> PigeonLines(SmallPigeons) \o HoleLines(SmallPigeons, 1)]

InitScores ==
    InitWith([decider : {"VSIDS", "MINISAT"}, restarter : {NoRestarter} \cup Restarters],
             {ScoreInput})

SpecScores == InitScores /\ [][Next]_vars

\* solve() under a scheduler that keeps running the program while it can step
FairSpec == Init /\ [][Next]_vars /\ WF_vars(Next)

(***************************************************************************)
(* The priority queue on its own: a queue built from PQKeys scores, then   *)
(* any sequence of get_top, increase_update, remove and add of an absent   *)
(* key.  Priorities are kept up to MaxPrio.                                *)
(***************************************************************************)
PQKeys == 4
MaxScore == 1
MaxValue == 1
MaxPrio == 2

PQSolverIdle ==
    /\ pc = "pq"
    /\ args = [decider |-> "ORDERED", restarter |-> NoRestarter]
    /\ input = [n |-> 0, cls |-> <<>>]
    /\ line = 0
    /\ sat = BlankSat
    /\ luby = LubyInitial
    /\ frame = InitialFrame
    /\ calls = InitialCalls

InitPQ ==
    /\ PQSolverIdle
    /\ \E scores \in [1..PQKeys -> 0..MaxScore] : queue = PQInit(scores)
    /\ op = "construct"
    /\ top = 0

GetTop ==
    /\ pc = "pq"
    /\ \E r \in {PQGetTop(queue)} :
           /\ queue' = r.q
           /\ top' = r.top
    /\ op' = "get_top"
    /\ UNCHANGED <<pc, args, input, line, sat, luby, frame, calls>>

IncreaseUpdate ==
    /\ pc = "pq"
    /\ \E key \in 1..PQKeys, value \in 1..MaxValue :
           /\ key \in LiveKeys(queue) => PrioOf(queue, key) + value <= MaxPrio
           /\ queue' = PQIncreaseUpdate(queue, key, value)
           /\ op' = "increase_update"
    /\ top' = 0
    /\ UNCHANGED <<pc, args, input, line, sat, luby, frame, calls>>

Remove ==
    /\ pc = "pq"
    /\ \E key \in 1..PQKeys :
           /\ queue' = PQRemove(queue, key)
           /\ op' = "remove"
    /\ top' = 0
    /\ UNCHANGED <<pc, args, input, line, sat, luby, frame, calls>>

Add ==
    /\ pc = "pq"
    /\ \E key \in (1..PQKeys) \ LiveKeys(queue), value \in 0..MaxValue :
           /\ queue' = PQAdd(queue, key, value)
           /\ op' = "add"
    /\ top' = 0
    /\ UNCHANGED <<pc, args, input, line, sat, luby, frame, calls>>

NextPQ ==
    \/ GetTop
    \/ IncreaseUpdate
    \/ Remove
    \/ Add

SpecPQ == InitPQ /\ [][NextPQ]_vars

(***************************************************************************)
(* The Luby generator on its own: calls of get_next_luby_number and        *)
(* reset_luby.  The generator starts after reset_luby(), or in the state   *)
(* it is in after 2^29 - 1 - LubyLead calls since reset_luby(): the list   *)
(* holds the Luby sequence so far, the last number pushed from mult was    *)
(* the 2^27 at index 2^28 - 1.  At most MaxLubyCalls calls are followed.   *)
(***************************************************************************)
MaxLubyCalls == 70
LubyLead == 5

LubyAfterManyCalls ==
    [l |-> <<>>, mult |-> 2 ^ 28, minu |-> 2 ^ 28 - 1, base |-> 2 ^ 29 - 1 - LubyLead]

InitLuby ==
    /\ pc = "luby"
    /\ args = [decider |-> "ORDERED", restarter |-> "LUBY"]
    /\ input = [n |-> 0, cls |-> <<>>]
    /\ line = 0
    /\ sat = BlankSat
    /\ luby \in {LubyInitial, LubyAfterManyCalls}
    /\ frame = InitialFrame
    /\ calls = InitialCalls
    /\ queue = NoQueue
    /\ op = "none"
    /\ top = 0

NextLubyNumber ==
    /\ pc = "luby"
    /\ Len(luby.l) < MaxLubyCalls
    /\ \E r \in {GetNextLubyNumber(luby)} :
           /\ luby' = r.luby
           /\ top' = r.value
    /\ op' = "get_next_luby_number"
    /\ UNCHANGED <<pc, args, input, line, sat, frame, calls, queue>>

ResetLubyNumbers ==
    /\ pc = "luby"
    /\ luby' = ResetLuby(luby)
    /\ op' = "reset_luby"
    /\ top' = 0
    /\ UNCHANGED <<pc, args, input, line, sat, frame, calls, queue>>

NextLuby ==
    \/ NextLubyNumber
    \/ ResetLubyNumbers

SpecLuby == InitLuby /\ [][NextLuby]_vars

(***************************************************************************)
(* What the claims speak of.                                               *)
(***************************************************************************)
\* the literals of an input line, without the closing 0
Literals(tokens) == SubSeq(tokens, 1, Len(tokens) - 1)

\* the token is true under the final variable-to-value map
TokenTrue(S, tok) ==
    LET var == IF tok < 0 THEN -tok ELSE tok
    IN  IsAssigned(S, var) /\ S.variable_to_assignment_nodes[var].value = (tok > 0)

\* every input clause has a literal true under the map of S
MapSatisfies(S, inp) ==
    \A i \in 1..Len(inp.cls) :
        \E j \in 1..(Len(inp.cls[i]) - 1) : TokenTrue(S, inp.cls[i][j])

\* brute force: some assignment to 1..n satisfies every input clause
Satisfiable(inp) ==
    \E a \in [1..inp.n -> BOOLEAN] :
        \A i \in 1..Len(inp.cls) :
            \E j \in 1..(Len(inp.cls[i]) - 1) :
                LET tok == inp.cls[i][j]
                IN  a[IF tok < 0 THEN -tok ELSE tok] = (tok > 0)

\* solve() has recorded the result
Recorded(result) == pc = "done" /\ sat.stats.result = result

\* the literal of a line that is a unit clause (one distinct literal), else 0
UnitToken(tokens) ==
    IF Cardinality(Range(Literals(tokens))) = 1 THEN tokens[1] ELSE 0

\* line j is a unit clause opposite to a unit clause on an earlier line
Clash(inp, j) ==
    /\ UnitToken(inp.cls[j]) # 0
    /\ \E i \in 1..(j - 1) : UnitToken(inp.cls[i]) = -UnitToken(inp.cls[j])

\* the first such line, or 0
FirstClash(inp) ==
    IF \E j \in 1..Len(inp.cls) : Clash(inp, j)
    THEN CHOOSE j \in 1..Len(inp.cls) :
             Clash(inp, j) /\ \A k \in 1..(j - 1) : ~Clash(inp, k)
    ELSE 0

\* the distinct unit literals among the first n lines
UnitsRead(inp, n) == {UnitToken(inp.cls[i]) : i \in 1..n} \ {0}

\* the priority the live part of the heap holds for a key
HeapPrio(q, key) ==
    LET i == CHOOSE j \in 1..q.size : Key(q.heap[j]) = key
    IN  Prio(q.heap[i])

(***************************************************************************)
(* The claims.                                                             *)
(***************************************************************************)
\* C1: whenever solve() records SAT, every input clause (stored or unit)
\* has a literal that is true under the final variable-to-value map
C1_SatMapSatisfiesInput == Recorded("SAT") => MapSatisfies(sat, input)

\* C2: whenever solve() records UNSAT, no assignment to the variables 1..N
\* satisfies all input clauses
C2_UnsatHasNoModel == Recorded("UNSAT") => ~Satisfiable(input)

\* a run that recorded UNSAT from conflict analysis, after a decision and a
\* learned clause
C2_Witness ==
    /\ Recorded("UNSAT")
    /\ calls.decide > 0
    /\ sat.stats.num_learned_clauses > 0
    /\ ~Satisfiable(input)

\* C3: when BCP has met a conflict while the decision level is 0 (it returned
\* CONFLICT or RESTART at level 0), the analyzer is the next step, it returns
\* backjump level -1, and with it solve() records UNSAT
C3_LevelZeroConflictIsUnsat ==
    (pc \in {"analyze", "restart"} /\ sat.level = 0)
        => (pc = "analyze" /\ AnalyzeConflict(sat).backtrack_level = -1)

\* C4: the recorded answer is the same under every decider and restarter:
\* it is the answer the input fixes, SAT when the input has a model and
\* UNSAT when it has none
C4_SameAnswerUnderEveryConfiguration ==
    pc = "done" => sat.stats.result = (IF Satisfiable(input) THEN "SAT" ELSE "UNSAT")

C6_SatAssignsEveryVariable ==
    Recorded("SAT") => \A var \in 1..input.n : IsAssigned(sat, var)

\* a SAT answer of a queue-driven decider found after a backtrack
C6_Witness ==
    /\ Recorded("SAT")
    /\ sat.decider \in {"VSIDS", "MINISAT"}
    /\ calls.backtrack > 0
    /\ \A var \in 1..input.n : IsAssigned(sat, var)

\* C8: with two opposite unit clauses in the input, reading stops at the
\* second one with the result UNSAT, and solve() makes no BCP, decision or
\* analysis call; before that line every unit clause read has added one
\* trail record per distinct literal (a repetition adds none) and reading
\* has gone on
C8_OppositeUnitsStopReading ==
    LET fc == FirstClash(input)
    IN  /\ (fc # 0 /\ pc \notin {"new", "error", "read_p"}) =>
               /\ pc \in {"read", "read_end", "done"}
               /\ pc = "read" => line < fc
               /\ pc \in {"read_end", "done"} =>
                      line = fc /\ sat.stats.result = "UNSAT"
               /\ calls = InitialCalls
        /\ (pc \in {"read", "read_end"} /\ (fc = 0 \/ line < fc)) =>
               /\ Len(sat.assignment_stack) = Cardinality(UnitsRead(input, line))
               /\ pc = "read_end" => line = Len(input.cls)
               /\ sat.stats.result # "UNSAT"

\* reading stopped at an opposite unit clause before the end of the file,
\* after a unit clause had been repeated
C8_Witness ==
    LET fc == FirstClash(input)
    IN  /\ pc = "done"
        /\ fc # 0
        /\ line = fc
        /\ fc < Len(input.cls)
        /\ \E i, j \in 1..(fc - 1) :
               i < j /\ UnitToken(input.cls[i]) # 0
                     /\ UnitToken(input.cls[i]) = UnitToken(input.cls[j])
        /\ sat.stats.result = "UNSAT"
        /\ calls = InitialCalls

\* C9: construction fails, leaving no solver, exactly when the decider name
\* is not ORDERED, VSIDS or MINISAT or the restarter is neither None nor
\* GEOMETRIC nor LUBY; every valid combination constructs a solver with
\* that decider and restarter
C9_ConstructionChecksNames ==
    pc # "new" =>
        IF /\ args.decider \in {"ORDERED", "VSIDS", "MINISAT"}
           /\ args.restarter \in {NoRestarter, "GEOMETRIC", "LUBY"}
        THEN pc # "error" /\ sat.decider = args.decider
                          /\ sat.restarter = args.restarter
        ELSE pc = "error" /\ sat = BlankSat

\* a construction refused for its restarter name alone
C9_Witness ==
    /\ pc = "error"
    /\ args.decider = "VSIDS"
    /\ args.restarter = "FIXED"

\* C10: get_top on a queue that is not empty returns a key of the queue
\* whose priority is at least that of every key left, and removes that key
\* and no other; on an empty queue it returns -1 and changes nothing
C10_GetTopReturnsMaximum ==
    [][op' = "get_top" =>
          IF queue.size = 0
          THEN top' = -1 /\ queue' = queue
          ELSE /\ top' \in LiveKeys(queue)
               /\ queue'.size = queue.size - 1
               /\ LiveKeys(queue') = LiveKeys(queue) \ {top'}
               /\ \A key \in LiveKeys(queue') :
                      /\ HeapPrio(queue', key) = HeapPrio(queue, key)
                      /\ HeapPrio(queue, top') >= HeapPrio(queue', key)]_vars

\* get_top has returned a key and left at least two keys of different
\* priorities, one of them raised above every initial score
C10_Witness ==
    /\ op = "get_top"
    /\ top \in 1..PQKeys
    /\ queue.size >= 2
    /\ \E k1, k2 \in LiveKeys(queue) : HeapPrio(queue, k1) < HeapPrio(queue, k2)
    /\ Prio(queue.heap[queue.size + 1]) > MaxScore

\* C11: the k-th call of get_next_luby_number since reset_luby returns the
\* k-th number of the Luby sequence 1,1,2,1,1,2,4,...
C11_LubySequence ==
    (pc = "luby" /\ op = "get_next_luby_number") => top = LubyValue(LubyLen(luby))

\* how often x occurs in the sequence s
Occurrences(s, x) == Cardinality({i \in 1..Len(s) : s[i] = x})

\* the two watchers of the stored clause with id c (0-based) are distinct
\* literals of the clause
WatchPairOk(S, c) ==
    LET w == S.literals_watching_c[c + 1]
    IN  /\ Len(w) = 2
        /\ w[1] # w[2]
        /\ Contains(S.clauses[c + 1], w[1])
        /\ Contains(S.clauses[c + 1], w[2])

\* C12: between the steps of solve(), every stored clause has exactly two
\* watch literals, distinct and both in the clause, and clause id c is in the
\* watch list of literal l (once) exactly when l is one of the two
C12_WatchIndexMirrorsPairs ==
    /\ Len(sat.literals_watching_c) = Len(sat.clauses)
    /\ Len(sat.clauses) = sat.num_clauses
    /\ \A c \in 0..(Len(sat.clauses) - 1) :
           /\ WatchPairOk(sat, c)
           /\ \A l \in 1..Len(sat.clauses_watched_by_l) :
                  Occurrences(sat.clauses_watched_by_l[l], c) =
                      IF Contains(sat.literals_watching_c[c + 1], l) THEN 1 ELSE 0

\* a state of the main loop with a learned clause, in which some clause is
\* watched by a literal other than its first two
C12_Witness ==
    /\ pc \in {"bcp", "decide", "backtrack", "done"}
    /\ sat.stats.num_learned_clauses > 0
    /\ \E c \in 1..Len(sat.clauses) :
           /\ Len(sat.clauses[c]) > 2
           /\ sat.literals_watching_c[c] # SubSeq(sat.clauses[c], 1, 2)
    /\ C12_WatchIndexMirrorsPairs

\* the records of a trail with level at most T, in order
KeptRecords(stack, T) == SelectSeq(stack, LAMBDA node : node.level <= T)

\* what _backtrack(T, node) leaves of the solver S in the solver S2
BacktrackedTo(S, S2, T) ==
    LET kept == KeptRecords(S.assignment_stack, T)
    IN  /\ S2.level = T
        /\ \A i \in 1..Len(S2.assignment_stack) : S2.assignment_stack[i].level <= T
        /\ Len(S2.assignment_stack) >= Len(kept)
        /\ SubSeq(S2.assignment_stack, 1, Len(kept)) = kept
        /\ \A i \in 1..Len(S.assignment_stack) :
               LET node == S.assignment_stack[i]
               IN  (node.level > T /\ node.var # 0) =>
                       \/ ~IsAssigned(S2, node.var)
                       \/ S2.variable_to_assignment_nodes[node.var].level <= T

C15_TrailIndexIsPosition ==
    \A i \in 1..Len(sat.assignment_stack) : sat.assignment_stack[i].index = i - 1

\* a trail that ends in a CONFLICT record above a decision and an implication
C15_Witness ==
    /\ pc = "analyze"
    /\ Len(sat.assignment_stack) >= 3
    /\ sat.assignment_stack[Len(sat.assignment_stack)].var = 0
    /\ \E i \in 1..Len(sat.assignment_stack) :
           sat.assignment_stack[i].var # 0 /\ sat.assignment_stack[i].clause # NoClause
    /\ calls.backtrack > 0
    /\ C15_TrailIndexIsPosition

\* the stored clause with id c (0-based) has a literal that is true
ClauseSatisfied(S, c) ==
    \E i \in 1..Len(S.clauses[c + 1]) : LiteralTrue(S, S.clauses[c + 1][i])

\* BCP has returned NO_CONFLICT and no step has followed
Propagated == pc = "decide" \/ Recorded("SAT")

\* C13: each time BCP has returned NO_CONFLICT, every stored clause, original
\* or learned, that the assignment does not satisfy has neither of its two
\* watch literals assigned false
C13_UnsatisfiedClauseHasNoFalseWatch ==
    Propagated =>
        \A c \in 0..(Len(sat.clauses) - 1) :
            \/ ClauseSatisfied(sat, c)
            \/ \A i \in 1..2 : ~LiteralFalse(sat, sat.literals_watching_c[c + 1][i])

\* the stored clause with id c has all its literals assigned false
ClauseFalsified(S, c) ==
    \A i \in 1..Len(S.clauses[c + 1]) : LiteralFalse(S, S.clauses[c + 1][i])

\* the stored clause with id c has one unassigned literal and all its other
\* literals assigned false
ClauseUnit(S, c) ==
    LET clause == S.clauses[c + 1]
    IN  \E i \in 1..Len(clause) :
            /\ ~IsAssigned(S, GetVarFromLiteral(S, clause[i]))
            /\ \A j \in 1..Len(clause) :
                   clause[j] # clause[i] => LiteralFalse(S, clause[j])

\* C19: when BCP has returned NO_CONFLICT, no stored clause has all its
\* literals false, and none has one unassigned literal and the others false
C19_NoConflictLeavesNoImplication ==
    Propagated =>
        \A c \in 0..(Len(sat.clauses) - 1) :
            ~ClauseFalsified(sat, c) /\ ~ClauseUnit(sat, c)

\* the literal a trail record makes true
LiteralOfNode(S, node) == IF node.value THEN node.var ELSE node.var + S.num_vars

\* C20: when the analysis has stored a learned clause (length > 1), the
\* asserting literal it returns is one of the two watch literals of that
\* clause, its literals [0] and [1]
C20_AssertingLiteralIsWatched ==
    (pc = "backtrack" /\ frame.node_to_add.clause # NoClause) =>
        LiteralOfNode(sat, frame.node_to_add)
            \in Range(sat.literals_watching_c[frame.node_to_add.clause + 1])

\* the analysis has just stored a learned clause (length > 1) and solve() is
\* about to backtrack
LearnedClauseStored == pc = "backtrack" /\ frame.node_to_add.clause # NoClause

\* C16: when the analysis of a conflict at level L > 0 ends with a learned
\* clause of length > 1, then on the trail as it is before the backtrack
\* exactly one literal of the clause is assigned at level L, and every
\* literal of the clause is assigned false
C16_LearnedClauseHasOneLiteralAtConflictLevel ==
    LearnedClauseStored =>
        LET clause == sat.clauses[frame.node_to_add.clause + 1]
        IN  /\ sat.level > 0
            /\ Len(clause) > 1
            /\ Cardinality({i \in 1..Len(clause) :
                               NodeOfLiteral(sat, clause[i]).level = sat.level}) = 1
            /\ \A i \in 1..Len(clause) : LiteralFalse(sat, clause[i])

\* a learned clause of three literals from a conflict at level 2 or above,
\* found by resolution (it is not the clause of the conflict)
C16_Witness ==
    /\ LearnedClauseStored
    /\ sat.level >= 2
    /\ Len(sat.clauses[frame.node_to_add.clause + 1]) >= 3
    /\ \A c \in 1..(Len(sat.clauses) - 1) :
           Range(sat.clauses[c]) # Range(sat.clauses[Len(sat.clauses)])

\* the file has been read and solve() is between two of its steps
AfterIngest == pc \in {"bcp", "decide", "analyze", "backtrack", "restart", "done"}

\* C17: after ingest and between the steps of solve(), under MINISAT a
\* variable is in the priority queue iff it is unassigned, and under VSIDS
\* a literal is in the priority queue iff its variable is unassigned
C17_QueueHoldsTheUnassigned ==
    AfterIngest =>
        /\ sat.decider = "MINISAT" =>
               \A var \in 1..sat.num_vars :
                  var \in LiveKeys(sat.priority_queue) <=> ~IsAssigned(sat, var)
        /\ sat.decider = "VSIDS" =>
               \A literal \in 1..(2 * sat.num_vars) :
                  literal \in LiveKeys(sat.priority_queue)
                      <=> ~IsAssigned(sat, GetVarFromLiteral(sat, literal))
        /\ sat.decider # "ORDERED" =>
               Cardinality(LiveKeys(sat.priority_queue)) = sat.priority_queue.size

\* under VSIDS, after a backjump that put variables back: a decision, an
\* implication and the asserting literal of a learned clause are out of the
\* queue while another variable is in it with both literals
C17_Witness ==
    /\ pc = "bcp"
    /\ sat.decider = "VSIDS"
    /\ calls.backtrack >= 1
    /\ sat.stats.num_learned_clauses >= 1
    /\ sat.level >= 1
    /\ \E var \in 1..sat.num_vars : ~IsAssigned(sat, var)
    /\ \E i \in 1..Len(sat.assignment_stack) :
           /\ sat.assignment_stack[i].level >= 1
           /\ sat.assignment_stack[i].clause # NoClause

\* the literals that unit propagation over the clauses of the file forces,
\* starting from A: a literal is forced by a clause whose other literals
\* are all forced false
RECURSIVE ForcedFrom(_, _)
ForcedFrom(inp, A) ==
    LET new == {tok \in (-inp.n..inp.n) \ {0} :
                   \E i \in 1..Len(inp.cls) :
                      /\ tok \in Range(Literals(inp.cls[i]))
                      /\ \A other \in Range(Literals(inp.cls[i])) \ {tok} :
                             (0 - other) \in A}
    IN  IF new \subseteq A THEN A ELSE ForcedFrom(inp, A \cup new)

\* unit propagation alone gives every variable exactly one value
PropagationAssignsAll(inp) ==
    \A var \in 1..inp.n :
        (var \in ForcedFrom(inp, {})) # ((0 - var) \in ForcedFrom(inp, {}))

\* C18: when unit propagation from the unary clauses of the file assigns
\* every variable without conflict, solve() never decides and never meets
\* a conflict, every trail record is at level 0 with the forced value, and
\* solve() ends with SAT and all the forced values
C18_PropagationAloneGivesSat ==
    PropagationAssignsAll(input) =>
        /\ sat.stats.num_decisions = 0
        /\ pc \notin {"analyze", "backtrack", "restart", "crashed"}
        /\ \A i \in 1..Len(sat.assignment_stack) :
               /\ sat.assignment_stack[i].level = 0
               /\ (IF sat.assignment_stack[i].value THEN sat.assignment_stack[i].var
                    ELSE 0 - sat.assignment_stack[i].var) \in ForcedFrom(input, {})
        /\ pc = "done" =>
               /\ sat.stats.result = "SAT"
               /\ \A tok \in ForcedFrom(input, {}) : TokenTrue(sat, tok)

\* solve() has ended on the Horn chain 1, -1 2, -2 3, -3 4 with the four
\* variables on the trail
C18_Witness ==
    /\ input.cls = << <<1, 0>>, <<-1, 2, 0>>, <<-2, 3, 0>>, <<-3, 4, 0>> >>
    /\ PropagationAssignsAll(input)
    /\ Recorded("SAT")
    /\ Len(sat.assignment_stack) = 4
    /\ sat.stats.num_implications >= 3

\* the literal is false by a record that stands before position i of the
\* trail: the trail only grows at its end and is cut at its end, so these
\* are the assignments in force when the record at i was pushed
FalseBefore(S, i, literal) ==
    \E j \in 1..(i - 1) :
        /\ S.assignment_stack[j].var = GetVarFromLiteral(S, literal)
        /\ S.assignment_stack[j].value = IsNegativeLiteral(S, literal)

\* the record at position i of the trail is an assignment with an antecedent
HasAntecedent(S, i) ==
    S.assignment_stack[i].var # 0 /\ S.assignment_stack[i].clause # NoClause

\* C21: a trail record with an antecedent clause id makes a literal of that
\* clause true, and every other literal of the clause was assigned false
\* when the record was pushed; the records pushed while the file is read
\* and the first record of every level above 0 (the decision) carry no
\* antecedent
C21_AntecedentForcesTheLiteral ==
    \A i \in 1..Len(sat.assignment_stack) :
        LET node == sat.assignment_stack[i]
        IN  /\ HasAntecedent(sat, i) =>
                   /\ node.clause + 1 \in 1..Len(sat.clauses)
                   /\ LiteralOfNode(sat, node) \in Range(sat.clauses[node.clause + 1])
                   /\ \A other \in Range(sat.clauses[node.clause + 1])
                                      \ {LiteralOfNode(sat, node)} :
                          FalseBefore(sat, i, other)
            /\ pc \in {"read", "read_end"} => node.clause = NoClause /\ node.level = 0
            /\ (node.var # 0 /\ node.level > 0
                   /\ (i = 1 \/ sat.assignment_stack[i - 1].level < node.level))
                  => node.clause = NoClause

\* the trail holds a unit-derived record, a decision, an implication of an
\* input clause of three literals and the asserting record of a learned
\* clause
C21_Witness ==
    /\ \E i \in 1..Len(sat.assignment_stack) :
           sat.assignment_stack[i].level = 0 /\ sat.assignment_stack[i].clause = NoClause
    /\ \E i \in 1..Len(sat.assignment_stack) :
           sat.assignment_stack[i].level > 0 /\ sat.assignment_stack[i].clause = NoClause
    /\ \E i \in 1..Len(sat.assignment_stack) :
           /\ HasAntecedent(sat, i)
           /\ sat.assignment_stack[i].clause < sat.stats.num_clauses
           /\ Len(sat.clauses[sat.assignment_stack[i].clause + 1]) >= 3
    /\ \E i \in 1..Len(sat.assignment_stack) :
           /\ HasAntecedent(sat, i)
           /\ sat.stats.num_learned_clauses > 0
           /\ sat.assignment_stack[i].clause >= sat.stats.num_clauses

\* C22: when BCP has returned CONFLICT, the CONFLICT record is the last
\* record of the trail and the only one, it carries the current decision
\* level and the id of a clause whose literals are all assigned false, and
\* one of these literals at least is assigned at the current level
C22_ConflictClauseIsFalsified ==
    pc = "analyze" =>
        LET n    == Len(sat.assignment_stack)
            node == sat.assignment_stack[n]
        IN  /\ n >= 1
            /\ node.var = 0
            /\ node.index = n - 1
            /\ node.level = sat.level
            /\ \A i \in 1..(n - 1) : sat.assignment_stack[i].var # 0
            /\ node.clause + 1 \in 1..Len(sat.clauses)
            /\ \A literal \in Range(sat.clauses[node.clause + 1]) :
                   LiteralFalse(sat, literal)
            /\ \E literal \in Range(sat.clauses[node.clause + 1]) :
                   NodeOfLiteral(sat, literal).level = sat.level

\* a conflict at level 2 or above in a clause of three literals or more,
\* one of them assigned below the level of the conflict
C22_Witness ==
    /\ pc = "analyze"
    /\ sat.level >= 2
    /\ LET clause == sat.clauses[sat.assignment_stack[Len(sat.assignment_stack)].clause + 1]
       IN  /\ Len(clause) >= 3
           /\ \E i \in 1..Len(clause) : NodeOfLiteral(sat, clause[i]).level < sat.level

\* the greatest element of a non-empty set of integers
Greatest(set) == CHOOSE x \in set : \A y \in set : y <= x

\* C23: for a learned clause of length > 1 at conflict level L, the level
\* returned is the greatest assignment level below L among the literals of
\* the clause (so it is in 0..L-1), and the asserting record has the
\* variable of the literal of the clause at level L, the value that makes
\* this literal true, the returned level, and the id of the clause just
\* stored as its antecedent
C23_BackjumpLevelAndAssertingRecord ==
    LearnedClauseStored =>
        LET clause == sat.clauses[Len(sat.clauses)]
            lower  == {NodeOfLiteral(sat, clause[i]).level : i \in 1..Len(clause)}
                          \cap (0..(sat.level - 1))
            uip    == CHOOSE literal \in Range(clause) :
                          NodeOfLiteral(sat, literal).level = sat.level
            node   == frame.node_to_add
        IN  /\ lower # {}
            /\ frame.backtrack_level = Greatest(lower)
            /\ frame.backtrack_level \in 0..(sat.level - 1)
            /\ \E literal \in Range(clause) : NodeOfLiteral(sat, literal).level = sat.level
            /\ LiteralFalse(sat, uip)
            /\ node.var = GetVarFromLiteral(sat, uip)
            /\ node.value = ~IsNegativeLiteral(sat, uip)
            /\ node.level = frame.backtrack_level
            /\ node.clause = Len(sat.clauses) - 1

\* a backjump over a level: the conflict is at level 3 or above and the
\* level returned is at least 1 and at least two below the conflict level
C23_Witness ==
    /\ LearnedClauseStored
    /\ frame.backtrack_level >= 1
    /\ frame.backtrack_level + 2 <= sat.level

\* the clause the resolution loop of the analysis ends with, for the
\* conflict whose record is the last of the trail
DerivedClause(S) ==
    LET conflict_node == S.assignment_stack[Len(S.assignment_stack)]
    IN  ResolveToUIP([S EXCEPT !.assignment_stack = SubSeq(@, 1, Len(@) - 1)],
                     S.clauses[conflict_node.clause + 1], conflict_node.level)

\* the analysis of a conflict above level 0 whose derived clause has one literal
AnalyzesToUnit ==
    /\ pc = "analyze"
    /\ sat.level > 0
    /\ Len(DerivedClause(sat)) = 1

\* C24: when the analysis derives a learned clause of one literal, the
\* level it returns is 0, the asserting record makes that literal (false
\* until then) true at level 0 with no antecedent, and the clause
\* database, the watch index, the scores, the queue and incr are as before:
\* no clause is stored and nothing is bumped
C24_UnitLearnedClauseIsNotStored ==
    [][AnalyzesToUnit =>
          /\ pc' = "backtrack"
          /\ frame'.backtrack_level = 0
          /\ frame'.node_to_add.level = 0
          /\ frame'.node_to_add.clause = NoClause
          /\ LiteralOfNode(sat, frame'.node_to_add) = DerivedClause(sat)[1]
          /\ LiteralFalse(sat, LiteralOfNode(sat, frame'.node_to_add))
          /\ sat'.clauses = sat.clauses
          /\ sat'.num_clauses = sat.num_clauses
          /\ sat'.stats.num_learned_clauses = sat.stats.num_learned_clauses
          /\ sat'.clauses_watched_by_l = sat.clauses_watched_by_l
          /\ sat'.literals_watching_c = sat.literals_watching_c
          /\ sat'.lit_scores = sat.lit_scores
          /\ sat'.var_scores = sat.var_scores
          /\ sat'.priority_queue = sat.priority_queue
          /\ sat'.incr = sat.incr]_vars

\* the analysis of a conflict at level 1 or above has returned level 0 and
\* an asserting record without antecedent
C24_Witness ==
    /\ pc = "backtrack"
    /\ frame.node_to_add.var # 0
    /\ frame.node_to_add.clause = NoClause
    /\ frame.backtrack_level = 0
    /\ sat.level >= 1
    /\ calls.analyze >= 1

\* the trail without the CONFLICT record at its end, and the clause of that record
WithoutConflictRecord(S) ==
    [S EXCEPT !.assignment_stack = SubSeq(@, 1, Len(@) - 1)]
ClauseOfConflict(S) ==
    S.clauses[S.assignment_stack[Len(S.assignment_stack)].clause + 1]

\* the resolution loop from the working clause on: while the clause has not
\* exactly one literal at the level, the pivot is the literal of greatest
\* trail index among those at the level, its record has an antecedent, and
\* the working clause followed by the antecedent holds both literals of
\* the pivot variable
RECURSIVE PivotsHaveAntecedents(_, _, _)
PivotsHaveAntecedents(S, clause, level) ==
    LET v   == IsValidClause(S, clause, level)
        atL == {NodeOfLiteral(S, clause[i]).index :
                   i \in {j \in 1..Len(clause) : NodeOfLiteral(S, clause[j]).level = level}}
    IN  \/ v.nice /\ Cardinality(atL) = 1
        \/ /\ ~v.nice
           /\ Cardinality(atL) > 1
           /\ v.cand.var # 0
           /\ v.cand.level = level
           /\ v.cand.index = Greatest(atL)
           /\ v.cand.clause # NoClause
           /\ Contains(clause \o S.clauses[v.cand.clause + 1], v.cand.var)
           /\ Contains(clause \o S.clauses[v.cand.clause + 1], v.cand.var + S.num_vars)
           /\ PivotsHaveAntecedents(S, BinaryResolute(S, clause,
                                        S.clauses[v.cand.clause + 1], v.cand.var), level)

\* C25: in the analysis of a conflict at level L > 0, every resolution
\* pivot is the literal of greatest trail index among those of the working
\* clause at level L, its record has an antecedent clause (it is no
\* decision and no record without antecedent), and both literals of the
\* pivot variable are in the concatenation that is resolved
C25_PivotsHaveAntecedents ==
    (pc = "analyze" /\ sat.level > 0) =>
        PivotsHaveAntecedents(WithoutConflictRecord(sat), ClauseOfConflict(sat), sat.level)

\* an analysis with two resolution steps at least
C25_Witness ==
    /\ pc = "analyze"
    /\ sat.level > 0
    /\ LET S  == WithoutConflictRecord(sat)
           v1 == IsValidClause(S, ClauseOfConflict(sat), sat.level)
       IN  /\ ~v1.nice
           /\ ~IsValidClause(S, BinaryResolute(S, ClauseOfConflict(sat),
                                    S.clauses[v1.cand.clause + 1], v1.cand.var),
                              sat.level).nice

\* a call of BCP has returned: the call of solve(), or the conflict branch
\* followed on its own
BCPReturns(result) ==
    /\ pc \in {"bcp", "restarter"}
    /\ calls'.bcp = calls.bcp + 1
    /\ frame'.result = result

\* C26: with the GEOMETRIC restarter every conflict that BCP detects counts
\* for one; BCP returns RESTART exactly when the count reaches the limit,
\* the count is then 0 again and the limit is doubled, so that restart k
\* fires on conflict 512 * 2^(k-1) since the restart before; nothing else
\* changes the count or the limit.  Without a restarter BCP never returns
\* RESTART.
C26_GeometricRestarts ==
    [][/\ sat.restarter = "GEOMETRIC" =>
           /\ BCPReturns("CONFLICT") =>
                  /\ sat'.conflicts_before_restart = CountSucc(sat.conflicts_before_restart)
                  /\ ~CountGeq(sat'.conflicts_before_restart, sat.conflict_limit)
                  /\ sat'.conflict_limit = sat.conflict_limit
                  /\ sat'.stats.restarts = sat.stats.restarts
           /\ BCPReturns("RESTART") =>
                  /\ CountSucc(sat.conflicts_before_restart) = sat.conflict_limit
                  /\ sat.conflict_limit
                         = CountOf(InitialConflictLimit * 2 ^ (sat'.stats.restarts - 1))
                  /\ sat'.conflicts_before_restart = CountOf(0)
                  /\ sat'.conflict_limit = CountTimes(sat.conflict_limit, 2)
                  /\ sat'.stats.restarts = sat.stats.restarts + 1
           /\ ~(BCPReturns("CONFLICT") \/ BCPReturns("RESTART")) =>
                  /\ sat'.conflicts_before_restart = sat.conflicts_before_restart
                  /\ sat'.conflict_limit = sat.conflict_limit
                  /\ sat'.stats.restarts = sat.stats.restarts
       /\ (sat.restarter = NoRestarter /\ pc \in {"bcp", "restarter"}) =>
              /\ frame'.result # "RESTART"
              /\ pc' # "restart"
              /\ sat'.stats.restarts = 0]_vars

\* the third restart of the GEOMETRIC restarter has just fired, on conflict
\* 512 + 1024 + 2048
C26_Witness ==
    /\ sat.restarter = "GEOMETRIC"
    /\ frame.result = "RESTART"
    /\ sat.stats.restarts = 3
    /\ calls.bcp = 7 * InitialConflictLimit
    /\ sat.conflict_limit = CountOf(8 * InitialConflictLimit)
    /\ sat.conflicts_before_restart = CountOf(0)

\* C27: with the LUBY restarter of a single solver, the conflict limit in
\* force before restart k is 512 times the k-th number of the Luby sequence
\* (512, 512, 1024, 512, 512, 1024, 2048, ...), every conflict counts for
\* one, and restart k fires exactly when the count since the restart before
\* reaches that limit
C27_LubyRestarts ==
    [][sat.restarter = "LUBY" =>
          /\ sat.conflict_limit
                 = CountTimes(CountOf(LubyBase), LubyValue(sat.stats.restarts + 1))
          /\ BCPReturns("CONFLICT") =>
                 /\ sat'.conflicts_before_restart = CountSucc(sat.conflicts_before_restart)
                 /\ ~CountGeq(sat'.conflicts_before_restart, sat.conflict_limit)
                 /\ sat'.conflict_limit = sat.conflict_limit
                 /\ sat'.stats.restarts = sat.stats.restarts
          /\ BCPReturns("RESTART") =>
                 /\ CountSucc(sat.conflicts_before_restart) = sat.conflict_limit
                 /\ sat'.conflicts_before_restart = CountOf(0)
                 /\ sat'.stats.restarts = sat.stats.restarts + 1
                 /\ sat'.conflict_limit
                        = CountTimes(CountOf(LubyBase), LubyValue(sat'.stats.restarts + 1))]_vars

\* C28: the Luby sequence belongs to one solver: when a second solver with
\* the LUBY restarter is constructed, the first LUBY solver still gets the
\* limits it gets alone, 512 times the Luby number of its own restart count
C28_SecondSolverLeavesLimits ==
    (pc = "restarter" /\ sat.restarter = "LUBY") =>
        sat.conflict_limit
            = CountTimes(CountOf(LubyBase), LubyValue(sat.stats.restarts + 1))

\* the records of level 0 of a trail, in their order
LevelZeroRecords(stack) == SelectSeq(stack, LAMBDA node : node.level = 0)

AtLevel(stack, k) == {i \in 1..Len(stack) : stack[i].level = k}

\* the positions of the decision records: level >= 1 and no antecedent
DecisionRecords(stack) ==
    {i \in 1..Len(stack) : stack[i].level >= 1 /\ stack[i].clause = NoClause}

\* C30: in every state the levels are non-decreasing along the trail (so the
\* records of level 0 come first) and lie in 0..level; for each level k from
\* 1 to the current level exactly one record of level k has no antecedent,
\* and it is the first record of level k; the current level is the number of
\* decision records
C30_TrailLevelStructure ==
    LET stack == sat.assignment_stack
    IN  /\ \A i \in 1..(Len(stack) - 1) : stack[i].level <= stack[i + 1].level
        /\ \A i \in 1..Len(stack) : stack[i].level \in 0..sat.level
        /\ \A k \in 1..sat.level :
               /\ AtLevel(stack, k) # {}
               /\ \A i \in AtLevel(stack, k) :
                      stack[i].clause = NoClause <=> \A j \in AtLevel(stack, k) : i <= j
        /\ sat.level = Cardinality(DecisionRecords(stack))

\* three decisions are on the trail, each followed by an implied record, after
\* a clause was learned and records of level 0 were kept
C30_Witness ==
    LET stack == sat.assignment_stack
    IN  /\ sat.level = 3
        /\ sat.stats.num_learned_clauses > 0
        /\ AtLevel(stack, 0) # {}
        /\ \A k \in 1..3 : Cardinality(AtLevel(stack, k)) >= 2

(***************************************************************************)
(* The phase array of MINISAT.                                             *)
(***************************************************************************)
\* the value that the phase array of S holds for var
PhaseValue(S, var) == S.phase[var] # 0

\* var has in sat' a node that it did not have in sat
NewlyAssigned(var) ==
    /\ IsAssigned(sat', var)
    /\ sat'.variable_to_assignment_nodes[var] # sat.variable_to_assignment_nodes[var]

\* C31: under MINISAT the phase array holds, for every variable that can be
\* decided, the polarity of its last assignment, false when there was none,
\* and decide assigns that polarity.  Step by step: the array starts as all
\* false; a step that leaves a variable unassigned or unassigns it
\* (backtracking) leaves its phase entry unchanged; decide assigns the
\* extracted variable the value of its phase entry; every other assignment
\* enters the value in the array, except the unary clauses of the input,
\* whose variables stay assigned at level 0 ever after
C31_MinisatPhase ==
    [][(sat'.decider = "MINISAT" /\ Len(sat'.phase) > 0) =>
          /\ Len(sat.phase) = 0 => \A var \in 1..sat'.num_vars : ~PhaseValue(sat', var)
          /\ Len(sat.phase) > 0 => \A var \in 1..sat.num_vars :
                 /\ ~IsAssigned(sat', var) => sat'.phase[var] = sat.phase[var]
                 /\ (IsAssigned(sat', var) /\ ~NewlyAssigned(var)) =>
                        sat'.phase[var] = sat.phase[var]
                 /\ (IsAssigned(sat, var)
                        /\ sat.variable_to_assignment_nodes[var].level = 0) =>
                        ~NewlyAssigned(var)
                 /\ NewlyAssigned(var) =>
                        LET node == sat'.variable_to_assignment_nodes[var]
                        IN  IF pc = "decide"
                            THEN /\ node.value = PhaseValue(sat, var)
                                 /\ sat'.phase[var] = sat.phase[var]
                            ELSE IF pc = "read"
                            THEN /\ node.level = 0
                                 /\ sat'.phase[var] = sat.phase[var]
                            ELSE PhaseValue(sat', var) = node.value]_vars

\* MINISAT has decided a variable true: the variable was assigned true
\* before, and was unassigned by a backtrack
C31_Witness ==
    /\ sat.decider = "MINISAT"
    /\ pc = "bcp"
    /\ calls.backtrack > 0
    /\ Len(sat.assignment_stack) > 0
    /\ LET node == sat.assignment_stack[Len(sat.assignment_stack)]
       IN  node.clause = NoClause /\ node.level >= 1 /\ node.value

(***************************************************************************)
(* The choice of decide under VSIDS and ORDERED.                           *)
(***************************************************************************)
\* decide has assigned a variable in this step
Decides == pc = "decide" /\ pc' = "bcp"

\* C32: a decide that assigns pushes one record without antecedent at
\* level + 1 for a variable that was unassigned.  Under VSIDS the literal
\* extracted from the queue has a score that is maximal among the literals
\* of the unassigned variables, its variable is assigned true when the
\* literal is positive (<= N) and false otherwise, and neither the literal
\* nor its complement is in the queue afterwards.  Under ORDERED the
\* variable is the smallest unassigned one and it is assigned true.
C32_DecideChoice ==
    [][Decides =>
          LET N    == sat.num_vars
              node == sat'.assignment_stack[Len(sat'.assignment_stack)]
              lit  == Key(sat.priority_queue.heap[1])
          IN  /\ sat'.assignment_stack = Append(sat.assignment_stack, node)
              /\ node.var \in 1..N /\ ~IsAssigned(sat, node.var)
              /\ node.clause = NoClause
              /\ node.level = sat.level + 1 /\ sat'.level = sat.level + 1
              /\ sat.decider = "VSIDS" =>
                     /\ sat.priority_queue.size > 0
                     /\ ~IsAssigned(sat, GetVarFromLiteral(sat, lit))
                     /\ \A m \in 1..(2 * N) :
                            ~IsAssigned(sat, GetVarFromLiteral(sat, m)) =>
                                sat.lit_scores[lit] >= sat.lit_scores[m]
                     /\ node.var = GetVarFromLiteral(sat, lit)
                     /\ node.value = (lit <= N)
                     /\ sat'.priority_queue.indices[node.var] = -1
                     /\ sat'.priority_queue.indices[node.var + N] = -1
              /\ sat.decider = "ORDERED" =>
                     /\ node.value
                     /\ \A x \in 1..(node.var - 1) : IsAssigned(sat, x)]_vars

\* VSIDS has decided a variable false after a clause was learned: a negative
\* literal was at the top of the queue
C32_Witness ==
    /\ sat.decider = "VSIDS"
    /\ pc = "bcp"
    /\ sat.stats.num_learned_clauses > 0
    /\ Len(sat.assignment_stack) > 0
    /\ LET node == sat.assignment_stack[Len(sat.assignment_stack)]
       IN  node.clause = NoClause /\ node.level >= 2 /\ ~node.value

(***************************************************************************)
(* The position index of the priority queue.                               *)
(***************************************************************************)
\* indices agrees with the first size slots of the heap, no key is in two of
\* these slots, and a slot holds no greater priority than its parent
PQConsistent(q) ==
    /\ \A key \in DOMAIN q.indices :
           IF q.indices[key] = -1 THEN key \notin LiveKeys(q)
           ELSE /\ q.indices[key] \in 0..(q.size - 1)
                /\ Key(q.heap[q.indices[key] + 1]) = key
    /\ \A i, j \in 1..q.size : Key(q.heap[i]) = Key(q.heap[j]) => i = j
    /\ \A i \in 2..q.size : Prio(q.heap[i \div 2]) >= Prio(q.heap[i])

\* C33: in every state of a priority queue, on its own or as the queue of a
\* solver, indices[key] is -1 exactly when the key is in none of the first
\* size slots of the heap and otherwise names the slot that holds the key,
\* no key is in two live slots, and the live slots are in max-heap order
C33_IndicesAgreeWithHeap ==
    /\ queue # NoQueue => PQConsistent(queue)
    /\ PQConsistent(sat.priority_queue)

\* a key has been added to a queue that holds three keys or more, of which
\* two differ in priority, while another key is absent
C33_Witness ==
    /\ op = "add"
    /\ queue.size >= 3
    /\ \E key \in DOMAIN queue.indices : queue.indices[key] = -1
    /\ \E i, j \in 1..queue.size : Prio(queue.heap[i]) # Prio(queue.heap[j])

(***************************************************************************)
(* remove, increase_update and add on the keys and priorities of a queue.  *)
(***************************************************************************)
\* the keys in the queue, each with its priority
PQContent(q) == {<<Key(q.heap[i]), Prio(q.heap[i])>> : i \in 1..q.size}

\* C34: for every queue and key, remove(key) and increase_update(key, delta)
\* of an absent key return the queue as it was, heap, indices and size; of a
\* present key, remove takes exactly that key out and keeps every other key
\* with its priority, and increase_update adds delta to the priority of
\* exactly that key; add(key, score) of an absent key enters the key with
\* that score, and remove(key) after it gives back the keys and priorities
\* there were before
C34_RemoveIncreaseAdd ==
    queue # NoQueue =>
        \A key \in 1..PQKeys :
            IF key \notin LiveKeys(queue)
            THEN /\ PQRemove(queue, key) = queue
                 /\ \A delta \in 1..MaxValue : PQIncreaseUpdate(queue, key, delta) = queue
                 /\ \A score \in 0..MaxValue :
                        /\ PQContent(PQAdd(queue, key, score))
                               = PQContent(queue) \cup {<<key, score>>}
                        /\ PQContent(PQRemove(PQAdd(queue, key, score), key))
                               = PQContent(queue)
            ELSE /\ PQContent(PQRemove(queue, key))
                        = PQContent(queue) \ {<<key, PrioOf(queue, key)>>}
                 /\ \A delta \in 1..MaxValue :
                        PQContent(PQIncreaseUpdate(queue, key, delta))
                            = (PQContent(queue) \ {<<key, PrioOf(queue, key)>>})
                                 \cup {<<key, PrioOf(queue, key) + delta>>}

\* remove has acted on a queue that now holds two keys or more, of different
\* priorities, and lacks a key
C34_Witness ==
    /\ op = "remove"
    /\ queue.size >= 2
    /\ \E key \in 1..PQKeys : key \notin LiveKeys(queue)
    /\ \E i, j \in 1..queue.size : Prio(queue.heap[i]) # Prio(queue.heap[j])

(***************************************************************************)
(* The scores, incr and the priorities of the queue.                       *)
(***************************************************************************)
\* the score array that the queue of S is built from
ScoresOf(S) == IF S.decider = "VSIDS" THEN S.lit_scores ELSE S.var_scores

\* this step stores a learned clause
StoresLearned == sat'.stats.num_learned_clauses = sat.stats.num_learned_clauses + 1

\* C35: under VSIDS a step that stores a learned clause, which has more than
\* one literal, adds the incr of before to the score of every literal of the
\* clause, leaves the other scores, and adds 0.75 to incr, so that incr is
\* 1 + 0.75 k after k such clauses; and in every state under VSIDS or
\* MINISAT the priority of every key in the queue is the entry of the key in
\* the score array
C35_ScoresIncrAndPriorities ==
    /\ [](sat.decider \in {"VSIDS", "MINISAT"} =>
             \A key \in LiveKeys(sat.priority_queue) :
                 PrioOf(sat.priority_queue, key) = ScoresOf(sat)[key])
    /\ []((sat.decider = "VSIDS" /\ sat.incr # 0) =>
             sat.incr = VsidsUnit + VsidsIncrStep * sat.stats.num_learned_clauses)
    /\ [][(sat.decider = "VSIDS" /\ StoresLearned) =>
             LET clause == sat'.clauses[Len(sat'.clauses)]
             IN  /\ Len(sat'.clauses) = Len(sat.clauses) + 1
                 /\ Len(clause) > 1
                 /\ \A m \in 1..(2 * sat.num_vars) :
                        sat'.lit_scores[m] = sat.lit_scores[m]
                            + (IF Contains(clause, m) THEN sat.incr ELSE 0)
                 /\ sat'.incr = sat.incr + VsidsIncrStep]_vars

\* under VSIDS two learned clauses are stored, incr is 2.5, and a literal of
\* the first of them, whose score that clause has raised, is back in the
\* queue
C35_Witness ==
    /\ sat.decider = "VSIDS"
    /\ sat.stats.num_learned_clauses = 2
    /\ sat.incr = VsidsUnit + 2 * VsidsIncrStep
    /\ \E key \in LiveKeys(sat.priority_queue) :
           Contains(sat.clauses[sat.stats.num_clauses + 1], key)

(***************************************************************************)
(* The clause database.                                                    *)
(***************************************************************************)
\* the literals of the clause are pairwise distinct
DistinctLiterals(clause) ==
    \A i, j \in 1..Len(clause) : clause[i] = clause[j] => i = j

\* C36: the clause database only grows at its end.  In every state the
\* number of clauses is the length of the list, so that the id given to a
\* clause is its index, with one pair of watchers per clause, and every
\* stored clause has two literals or more, pairwise distinct, so that no
\* clause of one literal is stored; in every step the clauses of before are
\* the first clauses of after, unchanged, and a line of the input that holds
\* one literal adds no clause
C36_ClauseDatabaseAppendOnly ==
    /\ [](/\ sat.num_clauses = Len(sat.clauses)
          /\ Len(sat.literals_watching_c) = Len(sat.clauses)
          /\ \A i \in 1..Len(sat.clauses) :
                 Len(sat.clauses[i]) >= 2 /\ DistinctLiterals(sat.clauses[i]))
    /\ [][/\ Len(sat'.clauses) >= Len(sat.clauses)
          /\ SubSeq(sat'.clauses, 1, Len(sat.clauses)) = sat.clauses
          /\ (pc = "read" /\ Cardinality(Range(input.cls[line + 1]) \ {0}) = 1) =>
                 sat'.clauses = sat.clauses]_vars

\* input clauses and a learned clause are stored after a line of one literal
\* was read and a clause of one literal was learned
C36_Witness ==
    /\ sat.stats.num_clauses >= 2
    /\ sat.stats.num_learned_clauses >= 1
    /\ Len(input.cls) > sat.stats.num_clauses
    /\ pc = "backtrack"
    /\ frame.node_to_add.clause = NoClause
    /\ frame.node_to_add.var # 0

(***************************************************************************)
(* The visits of BCP for one trail record.                                 *)
(***************************************************************************)
\* the position of x in seq, where it occurs once
PositionIn(seq, x) == CHOOSE i \in 1..Len(seq) : seq[i] = x

\* the literal falsified by the record at pointer ptr (0-based) of the trail
FalsedBy(S, ptr) ==
    LET node == S.assignment_stack[ptr + 1]
    IN  IF node.value THEN node.var + S.num_vars ELSE node.var

\* the clause has been dealt with for this literal: it watches another
\* literal instead, or its other watcher is true
DealtWith(T, clause_id, falsed) ==
    \/ ~Contains(T.clauses_watched_by_l[falsed], clause_id)
    \/ LET w == T.literals_watching_c[clause_id + 1]
       IN  LiteralTrue(T, IF w[1] = falsed THEN w[2] ELSE w[1])

\* every literal of the clause is assigned false
Falsified(T, clause_id) ==
    \A i \in 1..Len(T.clauses[clause_id + 1]) :
        /\ IsAssigned(T, GetVarFromLiteral(T, T.clauses[clause_id + 1][i]))
        /\ ~LiteralTrue(T, T.clauses[clause_id + 1][i])

\* what the pass of BCP for the record at ptr shows of its visits.  start is
\* the watch list of the falsified literal before the pass, newest clause
\* first.  The records the pass pushes have their antecedents in start, at
\* growing positions: implications come in the order of start, one per
\* clause at most.  The pass ends behind start, or returns at a clause of
\* start that is falsified; the clauses before that place are dealt with,
\* the clauses behind it keep their watchers and stay in the list.
VisitsInOrder(S, lb, ptr) ==
    LET falsed == FalsedBy(S, ptr)
        start  == Reverse(S.clauses_watched_by_l[falsed])
        r      == BCPNode(S, lb, ptr)
        T      == r.sat
        new    == SubSeq(T.assignment_stack, Len(S.assignment_stack) + 1,
                         Len(T.assignment_stack))
    IN  /\ \A i, j \in 1..Len(start) : start[i] = start[j] => i = j
        /\ \A i \in 1..Len(new) : Contains(start, new[i].clause)
        /\ \A i, j \in 1..Len(new) :
               i < j => PositionIn(start, new[i].clause) < PositionIn(start, new[j].clause)
        /\ \E stop \in 1..(Len(start) + 1) :
               /\ r.ret = "" <=> stop = Len(start) + 1
               /\ r.ret # "" => Falsified(T, start[stop])
               /\ \A k \in 1..(stop - 1) : DealtWith(T, start[k], falsed)
               /\ \A k \in 1..Len(new) : PositionIn(start, new[k].clause) <= stop
               /\ \A k \in (stop + 1)..Len(start) :
                      /\ Contains(T.clauses_watched_by_l[falsed], start[k])
                      /\ T.literals_watching_c[start[k] + 1]
                             = S.literals_watching_c[start[k] + 1]

\* the solver and the Luby state before pass number n + 1 of the call of BCP
\* that is about to run
BeforePass(n) ==
    BCPSteps(sat, luby, IF frame.first_time THEN 0 ELSE Len(sat.assignment_stack) - 1, n)

\* C37: in every call of BCP, the pass for one trail record visits the
\* clauses that watched the falsified literal when the pass began, each once
\* and from the newest to the oldest, up to the end of that list or to the
\* clause at which BCP returns, whatever the pass does to the live list
C37_SnapshotVisitedNewestFirst ==
    (pc = "bcp" /\ (frame.first_time \/ Len(sat.assignment_stack) > 0)) =>
        \A n \in 0..sat.num_vars :
            LET b == BeforePass(n)
            IN  (b.ret = "" /\ b.ptr < Len(b.sat.assignment_stack)) =>
                    VisitsInOrder(b.sat, b.luby, b.ptr)

\* a pass of BCP that takes one clause out of the live list of the falsified
\* literal and then implies two literals from two older clauses
C37_Witness ==
    /\ pc = "bcp"
    /\ (frame.first_time \/ Len(sat.assignment_stack) > 0)
    /\ \E n \in 0..sat.num_vars :
           LET b == BeforePass(n)
           IN  /\ b.ret = "" /\ b.ptr < Len(b.sat.assignment_stack)
               /\ LET falsed == FalsedBy(b.sat, b.ptr)
                      start  == Reverse(b.sat.clauses_watched_by_l[falsed])
                      T      == BCPNode(b.sat, b.luby, b.ptr).sat
                  IN  /\ Len(T.assignment_stack) >= Len(b.sat.assignment_stack) + 2
                      /\ \E k \in 1..Len(start) :
                             /\ ~Contains(T.clauses_watched_by_l[falsed], start[k])
                             /\ k < PositionIn(start,
                                     T.assignment_stack[Len(b.sat.assignment_stack) + 1].clause)

(***************************************************************************)
(* Learned clauses follow from the input.                                  *)
(***************************************************************************)
\* the assignment a, a function from 1..N to BOOLEAN, makes the literal true
Holds(a, N, literal) == IF literal <= N THEN a[literal] ELSE ~a[literal - N]

\* a makes every clause line of the input true; a line is its signed
\* literals and the closing 0
SatisfiesInput(a) ==
    \A i \in 1..Len(input.cls) :
        \E k \in 1..(Len(input.cls[i]) - 1) :
            IF input.cls[i][k] > 0 THEN a[input.cls[i][k]] ELSE ~a[0 - input.cls[i][k]]

\* the learned clauses in the database, and the clause of one literal that
\* an analysis has just derived
LearnedClauses ==
    {sat.clauses[i] : i \in (sat.stats.num_clauses + 1)..Len(sat.clauses)}
    \cup (IF pc = "backtrack" /\ frame.node_to_add.var # 0
               /\ frame.node_to_add.clause = NoClause
           THEN {<<IF frame.node_to_add.value THEN frame.node_to_add.var
                   ELSE frame.node_to_add.var + sat.num_vars>>}
           ELSE {})

\* C38: every learned clause, of whatever length, follows from the clauses
\* of the input: every assignment of the variables 1..N that makes all
\* clauses of the input true makes the learned clause true
C38_LearnedClausesFollowFromInput ==
    sat.stats.num_clauses + sat.stats.num_learned_clauses > 0 =>
        \A a \in [1..sat.num_vars -> BOOLEAN] :
            SatisfiesInput(a) =>
                \A clause \in LearnedClauses :
                    \E k \in 1..Len(clause) : Holds(a, sat.num_vars, clause[k])

\* a clause learned by more than one resolution is stored for an input that
\* some assignment satisfies, and a clause of one literal has been derived
C38_Witness ==
    /\ pc = "backtrack"
    /\ frame.node_to_add.var # 0
    /\ frame.node_to_add.clause = NoClause
    /\ sat.stats.num_clauses >= 1
    /\ Len(sat.clauses) > sat.stats.num_clauses
    /\ \E a \in [1..sat.num_vars -> BOOLEAN] : SatisfiesInput(a)

(***************************************************************************)
(* One record per variable, and the dict of the variables.                 *)
(***************************************************************************)
\* the positions of the stack that hold a record of the variable
RecordsOf(stack, var) == {i \in 1..Len(stack) : stack[i].var = var}

\* the length of the longest prefix that two stacks share
SharedPrefix(old, new) ==
    LET short == IF Len(old) < Len(new) THEN Len(old) ELSE Len(new)
        same  == {k \in 0..short : \A i \in 1..k : old[i] = new[i]}
    IN  CHOOSE k \in same : \A m \in same : m <= k

\* every record pushed by the step is of a variable that has no record among
\* those the step has kept
PushesOnlyUnassigned ==
    LET old  == sat.assignment_stack
        new  == sat'.assignment_stack
        kept == SharedPrefix(old, new)
    IN  \A i \in (kept + 1)..Len(new) :
            new[i].var # 0 =>
                /\ \A j \in 1..kept : old[j].var # new[i].var
                /\ \A j \in (kept + 1)..Len(new) : new[j].var = new[i].var => j = i
                /\ kept = Len(old) => ~IsAssigned(sat, new[i].var)

\* C39: a variable has at most one record on the stack; the dict of the
\* variables holds exactly the variables that have a record on the stack,
\* each with that record; and decide, an implication of BCP and the push of
\* the asserting record assign only a variable that is unassigned then
C39_OneRecordPerVariable ==
    /\ [](\A var \in 1..Len(sat.variable_to_assignment_nodes) :
              /\ Cardinality(RecordsOf(sat.assignment_stack, var)) <= 1
              /\ IsAssigned(sat, var) <=> RecordsOf(sat.assignment_stack, var) # {}
              /\ \A i \in RecordsOf(sat.assignment_stack, var) :
                     sat.variable_to_assignment_nodes[var] = sat.assignment_stack[i])
    /\ [](\A i \in 1..Len(sat.assignment_stack) :
              sat.assignment_stack[i].var \in 0..Len(sat.variable_to_assignment_nodes))
    /\ [][PushesOnlyUnassigned]_vars

\* after a backtrack the stack holds an implication above level 0 and ends
\* with a record whose antecedent is a learned clause, and a variable is
\* still unassigned
C39_Witness ==
    /\ pc = "bcp"
    /\ calls.backtrack > 0
    /\ sat.stats.num_learned_clauses >= 1
    /\ Len(sat.assignment_stack) >= 3
    /\ \E i \in 1..Len(sat.assignment_stack) :
           sat.assignment_stack[i].level >= 1 /\ sat.assignment_stack[i].clause # NoClause
    /\ sat.assignment_stack[Len(sat.assignment_stack)].clause >= sat.stats.num_clauses
    /\ \E var \in 1..sat.num_vars : ~IsAssigned(sat, var)

(***************************************************************************)
(* The conflict record.                                                    *)
(***************************************************************************)
\* the positions of the stack that hold a conflict record (var None)
ConflictRecords(stack) == {i \in 1..Len(stack) : stack[i].var = 0}

\* C40: the stack holds at most one conflict record, and then as its last
\* record and only between the return of "CONFLICT" by BCP and the analysis
\* that pops it; decide, backtrack and BCP start on a stack without conflict
\* record; and BCP called with first_time false finds a stack that is not
\* empty
C40_ConflictRecordTransient ==
    /\ Cardinality(ConflictRecords(sat.assignment_stack)) <= 1
    /\ ConflictRecords(sat.assignment_stack) \subseteq {Len(sat.assignment_stack)}
    /\ ConflictRecords(sat.assignment_stack) # {} =>
           pc = "analyze" /\ frame.result = "CONFLICT"
    /\ pc = "analyze" => ConflictRecords(sat.assignment_stack) # {}
    /\ pc \in {"decide", "backtrack", "restart", "bcp"} =>
           ConflictRecords(sat.assignment_stack) = {}
    /\ pc = "bcp" /\ ~frame.first_time => Len(sat.assignment_stack) > 0
    /\ frame.result # "IndexError"

\* BCP, called with first_time false after an earlier analysis, backtrack
\* and restart, has returned "CONFLICT" above level 0: the conflict record
\* is the last of the stack
C40_Witness ==
    /\ pc = "analyze"
    /\ sat.stats.restarts >= 1
    /\ ~frame.first_time
    /\ calls.analyze >= 1
    /\ calls.backtrack >= 1
    /\ sat.level >= 1
    /\ Len(sat.assignment_stack) >= 3
    /\ sat.assignment_stack[Len(sat.assignment_stack)].var = 0

====
